---- MODULE Spec2Model ----
(***************************************************************************)
(* Model of the LumiCore data-cleaning page (src/app/page.tsx): the edit   *)
(* buffer and its error views, the fetch query with its retry policy, the  *)
(* validate and submit mutations, and the remote client's typed failure.   *)
(*                                                                         *)
(* Conventions.  Text that the code inspects character by character (field *)
(* values, validation messages) is a sequence of one-character strings.    *)
(* Messages that are only stored and shown are TLA+ strings.  An optional  *)
(* value (T | null | undefined) is <<>> when absent and <<v>> when present.*)
(* Row positions are 0-based as in the code; Item(items, i) reads items[i].*)
(***************************************************************************)
EXTENDS Integers, Sequences, FiniteSets, TLC

(***************************************************************************)
(* Program constants                                                       *)
(***************************************************************************)
DEFAULT_BATCH == "1"
DEFAULT_CANDIDATE_NAME == "Awsaf"
FETCH_RETRY_LIMIT == 3
RATE_LIMITED == 429
RETRY_MARGIN_MS == 300
BACKOFF_BASE_MS == 1000
BACKOFF_CAP_MS == 4000
BAD_GATEWAY == 502
UNAVAILABLE == 503

(***************************************************************************)
(* Bounds of the model                                                     *)
(***************************************************************************)
\* operator actions (edits, clicks, input changes) explored per session
MaxOps == 2
\* largest failureCount handed to the retry callbacks in RetrySpec
MaxAttempt == 5
\* longest flat error list handed to the error mapper in ErrorViewSpec
MaxErrors == 2

(***************************************************************************)
(* Optional values                                                         *)
(***************************************************************************)
None == <<>>
Some(v) == <<v>>
IsSome(o) == Len(o) > 0
Val(o) == o[1]

Min(a, b) == IF a <= b THEN a ELSE b

Max(a, b) == IF a >= b THEN a ELSE b

RECURSIVE Pow2(_)
Pow2(n) == IF n <= 0 THEN 1 ELSE 2 * Pow2(n - 1)

\* Math.ceil(ms / 1000) for ms >= 0
CeilSeconds(ms) == (ms + 999) \div 1000

(***************************************************************************)
(* Text                                                                    *)
(***************************************************************************)
Digits == {"0", "1", "2", "3", "4", "5", "6", "7", "8", "9"}

\* A character that a string of this module cannot hold is written as its
\* code point: these are single characters of the inspected text.
VT == "U+000B"
NBSP == "U+00A0"
BOM == "U+FEFF"
LS == "U+2028"
PS == "U+2029"
SpaceSeparators ==
    {" ", NBSP, "U+1680", "U+2000", "U+2001", "U+2002", "U+2003", "U+2004", "U+2005",
     "U+2006", "U+2007", "U+2008", "U+2009", "U+200A", "U+202F", "U+205F", "U+3000"}

\* the characters the . of a regular expression refuses
LineTerminators == {"\n", "\r", LS, PS}

\* the characters Number() strips from both ends of its text
WhiteSpace == {"\t", VT, "\f", BOM} \cup SpaceSeparators \cup LineTerminators

DigitVal(c) ==
    CASE c = "0" -> 0 [] c = "1" -> 1 [] c = "2" -> 2 [] c = "3" -> 3
      [] c = "4" -> 4 [] c = "5" -> 5 [] c = "6" -> 6 [] c = "7" -> 7
      [] c = "8" -> 8 [] c = "9" -> 9

AllDigits(s) == \A k \in 1..Len(s) : s[k] \in Digits

\* Number.parseInt(s, 10) of a non-empty run of decimal digits
RECURSIVE ParseInt(_)
ParseInt(s) ==
    IF Len(s) = 0 THEN 0
    ELSE 10 * ParseInt(SubSeq(s, 1, Len(s) - 1)) + DigitVal(s[Len(s)])

\* how many characters of s stand before the first one outside set
LeadingRun(s, set) ==
    LET stops == {k \in 1..Len(s) : s[k] \notin set}
    IN  IF stops = {} THEN Len(s) ELSE (CHOOSE k \in stops : \A j \in stops : k <= j) - 1

\* how many characters of s stand after the last one outside set
TrailingRun(s, set) ==
    LET stops == {k \in 1..Len(s) : s[k] \notin set}
    IN  IF stops = {} THEN Len(s) ELSE Len(s) - (CHOOSE k \in stops : \A j \in stops : k >= j)

TrimLeft(s) == SubSeq(s, LeadingRun(s, WhiteSpace) + 1, Len(s))

TrimRight(s) == SubSeq(s, 1, Len(s) - TrailingRun(s, WhiteSpace))

(***************************************************************************)
(* Numbers                                                                 *)
(***************************************************************************)
\* A natural number of any size is the sequence of its decimal digits
\* (numbers 0..9), most significant first and without a leading zero; the
\* empty sequence is 0.

\* the digits of a number below 2^31
RECURSIVE DigitsOf(_)
DigitsOf(n) == IF n = 0 THEN <<>> ELSE Append(DigitsOf(n \div 10), n % 10)

WithoutLeadingZeros(x) ==
    LET set == {k \in 1..Len(x) : x[k] # 0}
    IN  IF set = {} THEN <<>>
        ELSE SubSeq(x, CHOOSE k \in set : \A j \in set : k <= j, Len(x))

\* x * m + c digit by digit from the right, halving the work: as many
\* digits as x has, and the carry out of them
RECURSIVE Multiplied(_, _, _)
Multiplied(x, m, c) ==
    IF c = 0 /\ m = 1 THEN [digits |-> x, carry |-> 0]
    ELSE IF Len(x) = 0 THEN [digits |-> <<>>, carry |-> c]
    ELSE IF Len(x) = 1
         THEN [digits |-> <<(x[1] * m + c) % 10>>, carry |-> (x[1] * m + c) \div 10]
    ELSE LET k == Len(x) \div 2
             right == Multiplied(SubSeq(x, k + 1, Len(x)), m, c)
             left == Multiplied(SubSeq(x, 1, k), m, right.carry)
         IN  [digits |-> left.digits \o right.digits, carry |-> left.carry]

\* x * m + c, for a multiplier m and a carry c of at most 2^27
TimesPlus(x, m, c) ==
    LET p == Multiplied(x, m, c)
    IN  WithoutLeadingZeros(DigitsOf(p.carry) \o p.digits)

\* x divided by m digit by digit from the left, r carried in: as many
\* digits as x has, and what remains
RECURSIVE Divided(_, _, _)
Divided(x, m, r) ==
    IF r = 0 /\ m = 1 THEN [digits |-> x, rem |-> 0]
    ELSE IF Len(x) = 0 THEN [digits |-> <<>>, rem |-> r]
    ELSE IF Len(x) = 1
         THEN [digits |-> <<(10 * r + x[1]) \div m>>, rem |-> (10 * r + x[1]) % m]
    ELSE LET k == Len(x) \div 2
             left == Divided(SubSeq(x, 1, k), m, r)
             right == Divided(SubSeq(x, k + 1, Len(x)), m, left.rem)
         IN  [digits |-> left.digits \o right.digits, rem |-> right.rem]

\* x divided by m, for a divisor m of at most 2^27: the quotient's digits
\* and the remainder
DivSmall(x, m) == [Divided(x, m, 0) EXCEPT !.digits = WithoutLeadingZeros(@)]

Less(x, y) ==
    \/ Len(x) < Len(y)
    \/ /\ Len(x) = Len(y)
       /\ \E k \in 1..Len(x) : x[k] < y[k] /\ \A j \in 1..(k - 1) : x[j] = y[j]

\* x * 2^n
RECURSIVE TimesPow2(_, _)
TimesPow2(x, n) ==
    IF n <= 0 \/ Len(x) = 0 THEN x
    ELSE TimesPow2(TimesPlus(x, 2^Min(n, 27), 0), n - 27)

\* A cut value s stands for a number from s.digits * 2^s.exp up to, and
\* not reaching, (s.digits + 1) * 2^s.exp; it is s.digits * 2^s.exp exactly
\* when s.rem = 0.

\* x * 10^e cut to a multiple of 2^exp, for the digits x of v / 2^exp
TimesPow10(x, e, exp) ==
    IF e >= 0
    THEN [digits |-> IF Len(x) = 0 THEN x ELSE x \o [k \in 1..e |-> 0], rem |-> 0, exp |-> exp]
    ELSE [digits |-> SubSeq(x, 1, Len(x) + e),
          rem |-> IF \A k \in 1..Len(x) : k > Len(x) + e => x[k] = 0 THEN 0 ELSE 1,
          exp |-> exp]

\* s cut to a multiple of 2^(s.exp + n), for n of at most 27
ShiftRight(s, n) ==
    [DivSmall(s.digits, 2^n) EXCEPT !.rem = IF s.rem = 0 THEN @ ELSE 1]
        @@ [exp |-> s.exp + n]

\* s cut to a multiple of 2^(s.exp + n)
RECURSIVE DivPow2(_, _)
DivPow2(s, n) ==
    IF n <= 0 \/ Len(s.digits) = 0 THEN s
    ELSE DivPow2(ShiftRight(s, Min(n, 27)), n - 27)

\* A JavaScript number other than NaN.  A finite one is
\* (-1)^neg * mant * 2^exp with mant an odd natural number below 2^53; zero
\* is mant = <<>>, exp = 0 and keeps its sign; inf marks an infinity.  Two
\* numbers are the same value (Object.is) exactly when the records are
\* equal.
JsNum(neg, mant, exp, inf) == [neg |-> neg, mant |-> mant, exp |-> exp, inf |-> inf]

Zero(neg) == JsNum(neg, <<>>, 0, FALSE)

Infinite(neg) == JsNum(neg, <<>>, 0, TRUE)

\* the finite number mant * 2^exp of a natural mant, its factors of two
\* moved into the exponent, 2^c at a time
RECURSIVE OddForm(_, _, _, _)
OddForm(neg, mant, exp, c) ==
    IF Len(mant) = 0 THEN Zero(neg)
    ELSE IF c = 0 THEN JsNum(neg, mant, exp, FALSE)
    ELSE IF DivSmall(mant, 2^c).rem = 0
         THEN OddForm(neg, DivSmall(mant, 2^c).digits, exp + c, c)
    ELSE OddForm(neg, mant, exp, c \div 2)

\* s cut further until s.digits is below 2^54 = 18014398509481984
RECURSIVE Narrow(_)
Narrow(s) ==
    IF Less(s.digits, <<1, 8, 0, 1, 4, 3, 9, 8, 5, 0, 9, 4, 8, 1, 9, 8, 4>>) THEN s
    ELSE Narrow(ShiftRight(s, 1))

\* the number of the last two digits of x: x modulo 4 is this number's
LowDigits(x) ==
    IF Len(x) = 0 THEN 0
    ELSE IF Len(x) = 1 THEN x[1]
    ELSE 10 * x[Len(x) - 1] + x[Len(x)]

\* mant * 2^exp for mant of at most 2^53 = 9007199254740992: an infinity
\* from 2^1024 on
Packed(neg, mant, exp) ==
    IF exp > 971 \/ (exp = 971 /\ mant = <<9, 0, 0, 7, 1, 9, 9, 2, 5, 4, 7, 4, 0, 9, 9, 2>>)
    THEN Infinite(neg)
    ELSE OddForm(neg, mant, exp, 16)

\* The cut value s, of s.digits below 2^54, rounded to a multiple of
\* 2^(s.exp + 1): up when the last bit of s.digits is set and either
\* something was cut off or the bit before it is set (ties to even).
Rounded(neg, s) ==
    Packed(neg,
           TimesPlus(DivSmall(s.digits, 2).digits, 1,
                     IF /\ LowDigits(s.digits) % 2 = 1
                        /\ (s.rem # 0 \/ LowDigits(s.digits) % 4 = 3)
                     THEN 1 ELSE 0),
           s.exp + 1)

\* The double nearest to (-1)^neg * digits * 10^e, ties to the even
\* significand, for a natural digits > 0 without a leading zero: the value
\* is cut to a multiple of 2^low, low at most 53 below its binary exponent
\* and not below that of half the smallest double, so that the cut value
\* keeps the 53 bits of the significand and the bit below them.
RoundToDouble(neg, digits, e, low) ==
    Rounded(neg, Narrow(IF low <= 0
                        THEN TimesPow10(TimesPow2(digits, 0 - low), e, low)
                        ELSE DivPow2(TimesPow10(digits, e, 0), low)))

\* The double nearest to (-1)^neg * digits * 10^e.  An integer of at most
\* fifteen digits is a double; a value of 10^310 or more is beyond the
\* largest and one below 10^-324 below half the smallest; any other lies in
\* [10^(top-1), 10^top) for top = Len(digits) + e, so its binary exponent
\* is at least (top - 1) * 3.321928.
NearestDouble(neg, digits, e) ==
    IF Len(digits) = 0 THEN Zero(neg)
    ELSE IF e >= 0 /\ Len(digits) + e <= 15
         THEN OddForm(neg, digits \o [k \in 1..e |-> 0], 0, 16)
    ELSE IF Len(digits) + e > 310 THEN Infinite(neg)
    ELSE IF Len(digits) + e < 0 - 324 THEN Zero(neg)
    ELSE RoundToDouble(neg, digits, e,
                       Max(((Len(digits) + e - 1) * 3321928) \div 1000000 - 54, 0 - 1075))

\* the number of an integer
NumberOf(n) == NearestDouble(n < 0, DigitsOf(IF n < 0 THEN 0 - n ELSE n), 0)

HexDigits ==
    Digits \cup {"a", "b", "c", "d", "e", "f", "A", "B", "C", "D", "E", "F"}

HexVal(c) ==
    CASE c \in Digits -> DigitVal(c)
      [] c \in {"a", "A"} -> 10 [] c \in {"b", "B"} -> 11 [] c \in {"c", "C"} -> 12
      [] c \in {"d", "D"} -> 13 [] c \in {"e", "E"} -> 14 [] c \in {"f", "F"} -> 15

\* the value of a run of a few digits in the given radix
RECURSIVE ParseRadixShort(_, _)
ParseRadixShort(s, radix) ==
    IF Len(s) = 0 THEN 0
    ELSE radix * ParseRadixShort(SubSeq(s, 1, Len(s) - 1), radix) + HexVal(s[Len(s)])

\* The value of the digits s in the given radix, a power of two, after the
\* digits of value acc, as many digits at a time as 24 bits hold; a value
\* of more than 400 decimal digits is beyond every double and is not
\* carried further.
RECURSIVE ParseRadix(_, _, _)
ParseRadix(acc, s, radix) ==
    LET k == Min(Len(s), CASE radix = 16 -> 6 [] radix = 8 -> 8 [] radix = 2 -> 24)
    IN  IF Len(s) = 0 \/ Len(acc) > 400 THEN acc
        ELSE ParseRadix(TimesPlus(acc, radix^k, ParseRadixShort(SubSeq(s, 1, k), radix)),
                        SubSeq(s, k + 1, Len(s)), radix)

\* the digits a radix prefix (0x, 0b, 0o) admits, none for other text
RadixDigits(c) ==
    CASE c \in {"x", "X"} -> HexDigits
      [] c \in {"b", "B"} -> {"0", "1"}
      [] c \in {"o", "O"} -> {"0", "1", "2", "3", "4", "5", "6", "7"}
      [] OTHER -> {}

Radix(c) == CASE c \in {"x", "X"} -> 16 [] c \in {"b", "B"} -> 2 [] OTHER -> 8

LeadingDigits(s) == LeadingRun(s, Digits)

StripLeadingZeros(s) == SubSeq(s, LeadingRun(s, {"0"}) + 1, Len(s))

StripTrailingZeros(s) == SubSeq(s, 1, Len(s) - TrailingRun(s, {"0"}))

\* the exponent part of a decimal literal: absent, or e/E, an optional
\* sign and digits.  An exponent of more than eight digits is kept as
\* 10^8: a literal short enough to be typed is beyond the range of a double
\* with it as with any larger one.
ExponentPart(s) ==
    IF Len(s) = 0 THEN Some(0)
    ELSE IF s[1] \notin {"e", "E"} THEN None
    ELSE LET signed == Len(s) > 1 /\ s[2] \in {"+", "-"}
             run == SubSeq(s, IF signed THEN 3 ELSE 2, Len(s))
             sig == StripLeadingZeros(run)
             magnitude == IF Len(sig) > 8 THEN 100000000 ELSE ParseInt(sig)
         IN  IF Len(run) = 0 \/ ~AllDigits(run) THEN None
             ELSE Some(IF signed /\ s[2] = "-" THEN 0 - magnitude ELSE magnitude)

\* an unsigned decimal literal: digits, a point, digits, an exponent, with
\* a digit on at least one side of the point
DecimalLiteral(neg, u) ==
    LET intLen == LeadingDigits(u)
        afterInt == SubSeq(u, intLen + 1, Len(u))
        hasPoint == Len(afterInt) > 0 /\ afterInt[1] = "."
        fracLen == IF hasPoint THEN LeadingDigits(Tail(afterInt)) ELSE 0
        afterFrac == IF hasPoint THEN SubSeq(afterInt, fracLen + 2, Len(afterInt))
                     ELSE afterInt
        exponent == ExponentPart(afterFrac)
        all == SubSeq(u, 1, intLen)
               \o (IF hasPoint THEN SubSeq(afterInt, 2, fracLen + 1) ELSE <<>>)
        lead == StripLeadingZeros(all)
        sig == StripTrailingZeros(lead)
    IN  IF intLen + fracLen = 0 \/ ~IsSome(exponent) THEN [nan |-> TRUE, num |-> Zero(FALSE)]
        ELSE [nan |-> FALSE,
              num |-> NearestDouble(neg, [k \in 1..Len(sig) |-> DigitVal(sig[k])],
                                    Len(lead) - Len(sig) - fracLen + Val(exponent))]

\* Number(value): blank text is 0; a radix prefix with its digits, an
\* optionally signed Infinity or decimal literal is the double nearest to
\* its value; anything else is NaN (nan, with num of no meaning).
JsNumber(value) ==
    LET t == TrimRight(TrimLeft(value))
        signed == Len(t) > 0 /\ t[1] \in {"-", "+"}
        neg == signed /\ t[1] = "-"
        body == IF signed THEN Tail(t) ELSE t
    IN  IF Len(t) = 0 THEN [nan |-> FALSE, num |-> Zero(FALSE)]
        ELSE IF /\ Len(t) > 2
                /\ t[1] = "0"
                /\ \A k \in 3..Len(t) : t[k] \in RadixDigits(t[2])
             THEN [nan |-> FALSE,
                   num |-> NearestDouble(FALSE,
                                         ParseRadix(<<>>, StripLeadingZeros(SubSeq(t, 3, Len(t))),
                                                    Radix(t[2])),
                                         0)]
        ELSE IF body = <<"I", "n", "f", "i", "n", "i", "t", "y">>
             THEN [nan |-> FALSE, num |-> Infinite(neg)]
        ELSE DecimalLiteral(neg, body)

(***************************************************************************)
(* Remote client: the typed failure (ApiError) and untyped rejections      *)
(***************************************************************************)
\* An error value as the callbacks see it.  isApi is `error instanceof
\* ApiError`; origin names the request that produced the object, so that
\* two failures of different requests are different objects.
MkError(isApi, message, retryAfterMs, upstreamStatus, origin) ==
    [isApi |-> isApi, message |-> message, retryAfterMs |-> retryAfterMs,
     upstreamStatus |-> upstreamStatus, origin |-> origin]

\* ok of a Response: the status is in 200..299
ResponseOk(status) == status \in 200..299

\* the text of a JSON object with the given optional members
ObjectText(message, detail, retry_after_ms, upstream_status) ==
    LET members ==
            (IF IsSome(message) THEN <<"\"message\":\"" \o Val(message) \o "\"">> ELSE <<>>)
            \o (IF IsSome(detail) THEN <<"\"detail\":\"" \o Val(detail) \o "\"">> ELSE <<>>)
            \o (IF IsSome(retry_after_ms)
                THEN <<"\"retry_after_ms\":" \o ToString(Val(retry_after_ms))>> ELSE <<>>)
            \o (IF IsSome(upstream_status)
                THEN <<"\"upstream_status\":" \o ToString(Val(upstream_status))>> ELSE <<>>)
        Joined[k \in 0..Len(members)] ==
            IF k = 0 THEN ""
            ELSE IF k = 1 THEN members[1]
            ELSE Joined[k - 1] \o "," \o members[k]
    IN  "{" \o Joined[Len(members)] \o "}"

\* a response body: its text and what JSON.parse makes of it
ObjectBody(message, detail, retry_after_ms, upstream_status) ==
    [text |-> ObjectText(message, detail, retry_after_ms, upstream_status),
     json |-> [kind |-> "object", message |-> message, detail |-> detail,
               retry_after_ms |-> retry_after_ms, upstream_status |-> upstream_status]]
NullBody == [text |-> "null", json |-> [kind |-> "null"]]
HtmlBody == [text |-> "<html>Bad Gateway</html>", json |-> [kind |-> "invalid"]]

\* how a promise settles
Resolved(data) == [settled |-> "resolved", data |-> data]
Rejected(error) == [settled |-> "rejected", error |-> error]

\* request(path, init) for one outcome of fetch(): the call rejects, or
\* answers with a status, a status text and a body
Request(outcome, origin) ==
    IF outcome.kind = "rejected"
    THEN Rejected(MkError(FALSE, "Failed to fetch", None, None, origin))
    ELSE LET status == outcome.status
             head == ToString(status) \o " " \o outcome.statusText \o ": "
             text == outcome.body.text
             parsed == outcome.body.json
         IN  IF ~ResponseOk(status)
             THEN IF parsed.kind = "object"
                  THEN Rejected(MkError(TRUE,
                           head \o (IF IsSome(parsed.message) THEN Val(parsed.message)
                                    ELSE "Request failed")
                                \o " - "
                                \o (IF IsSome(parsed.detail) THEN Val(parsed.detail) ELSE text),
                           parsed.retry_after_ms, parsed.upstream_status, origin))
                  ELSE Rejected(MkError(TRUE, head \o text, None, None, origin))
             ELSE IF parsed.kind = "invalid"
                  THEN Rejected(MkError(FALSE, "Unexpected token in JSON", None, None, origin))
                  ELSE Resolved(parsed)

(***************************************************************************)
(* Retry policy of the batch query                                         *)
(***************************************************************************)
\* mutant: the rate-limit test is dropped
RetryIgnoringRateLimit(failureCount, error) == failureCount < FETCH_RETRY_LIMIT

\* mutant: off-by-one cap
RetryOneMore(failureCount, error) ==
    IF error.isApi /\ error.upstreamStatus = Some(RATE_LIMITED) THEN FALSE
    ELSE failureCount <= FETCH_RETRY_LIMIT

Retry(failureCount, error) ==
    IF error.isApi /\ error.upstreamStatus = Some(RATE_LIMITED) THEN FALSE
    ELSE failureCount < FETCH_RETRY_LIMIT

\* mutant: the safety margin is forgotten
RetryDelayNoMargin(failureCount, error) ==
    IF error.isApi /\ IsSome(error.retryAfterMs) THEN Val(error.retryAfterMs)
    ELSE Min(BACKOFF_BASE_MS * Pow2(failureCount), BACKOFF_CAP_MS)

RetryDelay(failureCount, error) ==
    IF error.isApi /\ IsSome(error.retryAfterMs) THEN Val(error.retryAfterMs) + RETRY_MARGIN_MS
    ELSE Min(BACKOFF_BASE_MS * Pow2(failureCount), BACKOFF_CAP_MS)

(***************************************************************************)
(* Records                                                                 *)
(***************************************************************************)
PersistedFields == {"doc_id", "type", "counterparty", "project", "expiry_date", "amount"}

NormalizedItem(docId, ty, party, proj, expiry, amt, errs, warns, srcIndex, valid) ==
    [doc_id |-> docId, type |-> ty, counterparty |-> party,
     project |-> proj, expiry_date |-> expiry, amount |-> amt,
     errors |-> errs, warnings |-> warns, source_index |-> srcIndex,
     is_valid |-> valid]

CleanedItem(item) ==
    [doc_id |-> item.doc_id, type |-> item.type, counterparty |-> item.counterparty,
     project |-> item.project, expiry_date |-> item.expiry_date, amount |-> item.amount]

\* items[i] of a JavaScript array: absent beyond the end
Item(items, i) == IF i + 1 \in 1..Len(items) THEN Some(items[i + 1]) ELSE None

(***************************************************************************)
(* Error mapper                                                            *)
(***************************************************************************)
ItemPrefix == <<"I", "t", "e", "m", " ">>

\* end of the digit run that starts at position d (d - 1 when there is none)
RECURSIVE DigitRunEnd(_, _)
DigitRunEnd(s, d) ==
    IF d <= Len(s) /\ s[d] \in Digits THEN DigitRunEnd(s, d + 1) ELSE d - 1

\* /Item (\d+): / matches at position p
MatchesAt(s, p) ==
    LET d == p + Len(ItemPrefix)
        e == DigitRunEnd(s, d)
    IN  /\ p + Len(ItemPrefix) - 1 <= Len(s)
        /\ SubSeq(s, p, p + Len(ItemPrefix) - 1) = ItemPrefix
        /\ e >= d
        /\ e + 2 <= Len(s)
        /\ s[e + 1] = ":"
        /\ s[e + 2] = " "

\* (.*): the longest run without a line terminator
RECURSIVE UpToLineEnd(_)
UpToLineEnd(s) ==
    IF Len(s) = 0 \/ s[1] \in LineTerminators THEN <<>>
    ELSE <<s[1]>> \o UpToLineEnd(Tail(s))

\* message.match(/Item (\d+): (.*)/): the leftmost match, or none
MatchItem(message) ==
    LET starts == {p \in 1..Len(message) : MatchesAt(message, p)}
    IN  IF starts = {} THEN None
        ELSE LET p == CHOOSE q \in starts : \A r \in starts : q <= r
                 d == p + Len(ItemPrefix)
                 e == DigitRunEnd(message, d)
             IN  Some([index  |-> ParseInt(SubSeq(message, d, e)),
                       detail |-> UpToLineEnd(SubSeq(message, e + 3, Len(message)))])

\* map[index].push(detail), creating the entry first when it is absent
PushDetail(map, index, detail) ==
    IF index \in DOMAIN map THEN [map EXCEPT ![index] = Append(@, detail)]
    ELSE [k \in DOMAIN map \cup {index} |-> IF k = index THEN <<detail>> ELSE map[k]]

EmptyMap == [k \in {} |-> <<>>]

RECURSIVE ExtractInto(_, _)
ExtractInto(map, errors) ==
    IF Len(errors) = 0 THEN map
    ELSE LET m == MatchItem(Head(errors))
         IN  ExtractInto(IF IsSome(m) THEN PushDetail(map, Val(m).index, Val(m).detail)
                         ELSE map,
                         Tail(errors))

ExtractRowErrors(errors) == ExtractInto(EmptyMap, errors)

(***************************************************************************)
(* Edit buffer transitions                                                 *)
(***************************************************************************)
\* mutant: the edit forgets to mark the record valid
EditRecordKeepValidity(item, field, value) ==
    LET a == IF field = "doc_id" THEN [item EXCEPT !.doc_id = value] ELSE item
        numeric == JsNumber(value)
    IN  IF field = "amount"
        THEN [a EXCEPT !.amount = IF numeric.nan THEN NumberOf(0) ELSE numeric.num]
        ELSE IF field = "expiry_date" THEN [a EXCEPT !.expiry_date = value]
        ELSE IF field = "type" THEN [a EXCEPT !.type = value]
        ELSE IF field = "counterparty" THEN [a EXCEPT !.counterparty = value]
        ELSE IF field = "project" THEN [a EXCEPT !.project = value]
        ELSE a

\* the body of the items.map callback for the edited position
EditRecord(item, field, value) ==
    LET a == IF field = "doc_id" THEN [item EXCEPT !.doc_id = value] ELSE item
        numeric == JsNumber(value)
        b == IF field = "amount"
             THEN [a EXCEPT !.amount = IF numeric.nan THEN NumberOf(0) ELSE numeric.num]
             ELSE IF field = "expiry_date" THEN [a EXCEPT !.expiry_date = value]
             ELSE IF field = "type" THEN [a EXCEPT !.type = value]
             ELSE IF field = "counterparty" THEN [a EXCEPT !.counterparty = value]
             ELSE IF field = "project" THEN [a EXCEPT !.project = value]
             ELSE a
    IN  [b EXCEPT !.is_valid = TRUE]

\* setEditedItems(items => items.map(...)) of handleFieldChange
EditItems(items, index, field, value) ==
    [idx \in 1..Len(items) |->
        IF idx - 1 # index THEN items[idx] ELSE EditRecord(items[idx], field, value)]

\* setRowErrors(prev => ({ ...prev, [index]: [] }))
ClearRowErrors(prev, index) ==
    [k \in DOMAIN prev \cup {index} |-> IF k = index THEN <<>> ELSE prev[k]]

\* mutant: the merge keeps the server's view and drops warnings/source_index
MergeCleanedDropping(prev, cleaned) ==
    [i \in 1..Len(cleaned) |->
        NormalizedItem(cleaned[i].doc_id, cleaned[i].type, cleaned[i].counterparty,
                       cleaned[i].project, cleaned[i].expiry_date, cleaned[i].amount,
                       <<>>, <<>>, i - 1, TRUE)]

\* mutant: the merge walks the previous buffer instead of the response
MergeCleanedOverPrev(prev, cleaned) ==
    [i \in 1..Len(prev) |->
        LET c == IF i <= Len(cleaned) THEN cleaned[i] ELSE CleanedItem(prev[i])
        IN  NormalizedItem(c.doc_id, c.type, c.counterparty, c.project, c.expiry_date,
                           c.amount, <<>>, prev[i].warnings, prev[i].source_index, TRUE)]

\* mutant: the spreads are swapped, so the buffer's values win
MergeCleanedUnderBuffer(prev, cleaned) ==
    [i \in 1..Len(cleaned) |->
        LET p == Item(prev, i - 1)
            c == IF IsSome(p) THEN CleanedItem(Val(p)) ELSE cleaned[i]
        IN  NormalizedItem(c.doc_id, c.type, c.counterparty, c.project, c.expiry_date,
                           c.amount, <<>>,
                           IF IsSome(p) THEN Val(p).warnings ELSE <<>>,
                           IF IsSome(p) THEN Val(p).source_index ELSE i - 1,
                           TRUE)]

\* setEditedItems(prev => data.cleaned_items.map(...)) of validate onSuccess
MergeCleaned(prev, cleaned) ==
    [i \in 1..Len(cleaned) |->
        LET p == Item(prev, i - 1)
        IN  NormalizedItem(cleaned[i].doc_id, cleaned[i].type, cleaned[i].counterparty,
                           cleaned[i].project, cleaned[i].expiry_date, cleaned[i].amount,
                           <<>>,
                           IF IsSome(p) THEN Val(p).warnings ELSE <<>>,
                           IF IsSome(p) THEN Val(p).source_index ELSE i - 1,
                           TRUE)]

\* mutant: the buffer is sent as it is, transient fields included
SubmitPayloadUnprojected(candidate_name, batch_id, items) ==
    [candidate_name |-> candidate_name, batch_id |-> batch_id, cleaned_items |-> items]

\* the payload submitBatch puts on the wire
SubmitPayload(candidate_name, batch_id, items) ==
    [candidate_name |-> candidate_name, batch_id |-> batch_id,
     cleaned_items |-> [i \in 1..Len(items) |-> CleanedItem(items[i])]]

HasRowErrors(rowErrs) == \E k \in DOMAIN rowErrs : Len(rowErrs[k]) > 0

\* mutant: the gate forgets the global error list
DisableSubmitNoGlobal(submitPending, validatePending, rowErrs, globalErrs, fetchErr) ==
    \/ submitPending
    \/ validatePending
    \/ HasRowErrors(rowErrs)
    \/ IsSome(fetchErr)

\* mutant: an entry of the row map blocks even when it is empty
DisableSubmitAnyEntry(submitPending, validatePending, rowErrs, globalErrs, fetchErr) ==
    \/ submitPending
    \/ validatePending
    \/ DOMAIN rowErrs # {}
    \/ Len(globalErrs) > 0
    \/ IsSome(fetchErr)

DisableSubmit(submitPending, validatePending, rowErrs, globalErrs, fetchErr) ==
    \/ submitPending
    \/ validatePending
    \/ HasRowErrors(rowErrs)
    \/ Len(globalErrs) > 0
    \/ IsSome(fetchErr)

(***************************************************************************)
(* Status line of a failed submit                                          *)
(***************************************************************************)
\* mutant: only 503 is recognised as an unavailable upstream
SubmitFailureMessageOnly503(error) ==
    IF error.isApi /\ error.upstreamStatus = Some(UNAVAILABLE)
    THEN "Submission failed: upstream service is temporarily unavailable. Please retry in a few seconds - the app will not lose your edits."
    ELSE "Submission failed: " \o error.message

\* the message submitMutation.onError sets (the dash of the source text is
\* written as a hyphen)
SubmitFailureMessage(error) ==
    IF error.isApi /\ (error.upstreamStatus = Some(UNAVAILABLE)
                       \/ error.upstreamStatus = Some(BAD_GATEWAY))
    THEN "Submission failed: upstream service is temporarily unavailable. Please retry in a few seconds - the app will not lose your edits."
    ELSE "Submission failed: " \o error.message

(***************************************************************************)
(* Row view: what a rendered row shows of its errors                       *)
(***************************************************************************)
UpperCase ==
    <<"A", "B", "C", "D", "E", "F", "G", "H", "I", "J", "K", "L", "M",
      "N", "O", "P", "Q", "R", "S", "T", "U", "V", "W", "X", "Y", "Z">>
LowerCase ==
    <<"a", "b", "c", "d", "e", "f", "g", "h", "i", "j", "k", "l", "m",
      "n", "o", "p", "q", "r", "s", "t", "u", "v", "w", "x", "y", "z">>

\* String.prototype.toLowerCase on text of ASCII letters, digits and signs
ToLowerCase(s) ==
    [k \in 1..Len(s) |->
        IF \E u \in 1..Len(UpperCase) : UpperCase[u] = s[k]
        THEN LowerCase[CHOOSE u \in 1..Len(UpperCase) : UpperCase[u] = s[k]]
        ELSE s[k]]

\* String.prototype.includes
Includes(s, needle) ==
    \E p \in 1..(Len(s) - Len(needle) + 1) : SubSeq(s, p, p + Len(needle) - 1) = needle

\* String(field): the characters of a field's name
FieldName(field) ==
    CASE field = "doc_id" -> <<"d", "o", "c", "_", "i", "d">>
      [] field = "type" -> <<"t", "y", "p", "e">>
      [] field = "counterparty" ->
           <<"c", "o", "u", "n", "t", "e", "r", "p", "a", "r", "t", "y">>
      [] field = "project" -> <<"p", "r", "o", "j", "e", "c", "t">>
      [] field = "expiry_date" ->
           <<"e", "x", "p", "i", "r", "y", "_", "d", "a", "t", "e">>
      [] field = "amount" -> <<"a", "m", "o", "u", "n", "t">>

\* String(field).replace(/_/g, " ").toLowerCase()
Needle(field) ==
    LET name == FieldName(field)
    IN  ToLowerCase([k \in 1..Len(name) |-> IF name[k] = "_" THEN " " ELSE name[k]])

\* errors.filter(...) of getFieldErrors
RECURSIVE FilterIncluding(_, _)
FilterIncluding(errors, needle) ==
    IF Len(errors) = 0 THEN <<>>
    ELSE (IF Includes(ToLowerCase(Head(errors)), needle) THEN <<Head(errors)>> ELSE <<>>)
         \o FilterIncluding(Tail(errors), needle)

\* rowErrors[index] ?? baseErrors: the list a row shows
RowErrorList(rowErrs, index, baseErrors) ==
    IF index \in DOMAIN rowErrs THEN rowErrs[index] ELSE baseErrors

\* mutant: the field name is searched as written, underscore included
GetFieldErrorsRawName(rowErrs, index, field, baseErrors) ==
    FilterIncluding(RowErrorList(rowErrs, index, baseErrors), FieldName(field))

GetFieldErrors(rowErrs, index, field, baseErrors) ==
    FilterIncluding(RowErrorList(rowErrs, index, baseErrors), Needle(field))

\* rowIssueCount of a rendered row
RowIssueCount(rowErrs, index, baseErrors) ==
    (IF index \in DOMAIN rowErrs THEN Len(rowErrs[index]) ELSE 0) + Len(baseErrors)

(***************************************************************************)
(* Effects of the page that follow the batch query                         *)
(***************************************************************************)
\* The page state the handlers and effects write.
PageState(items, rowErrs, globalErrs, status, fetchErr) ==
    [editedItems |-> items, rowErrors |-> rowErrs, globalErrors |-> globalErrs,
     statusMessage |-> status, fetchErrorState |-> fetchErr]

\* useEffect(..., [batchQuery.data])
SeedFromBatch(st, data) ==
    IF IsSome(data)
    THEN PageState(Val(data).normalized_items, EmptyMap, <<>>, None, None)
    ELSE st

\* mutant: a fetch failure also empties the buffer
TrackFetchErrorClearing(st, queryError, failureCount) ==
    IF ~IsSome(queryError) THEN [st EXCEPT !.fetchErrorState = None]
    ELSE [st EXCEPT !.editedItems = <<>>,
                    !.fetchErrorState =
                        Some([message      |-> Val(queryError).message,
                              status       |-> None,
                              retryAfterMs |-> None,
                              attempts     |-> failureCount]),
                    !.statusMessage = Some(Val(queryError).message)]

\* useEffect(..., [queryError, batchQuery.failureCount])
TrackFetchError(st, queryError, failureCount) ==
    IF ~IsSome(queryError) THEN [st EXCEPT !.fetchErrorState = None]
    ELSE LET e == Val(queryError)
             retryState == [message      |-> e.message,
                            status       |-> IF e.isApi THEN e.upstreamStatus ELSE None,
                            retryAfterMs |-> IF e.isApi THEN e.retryAfterMs ELSE None,
                            attempts     |-> failureCount]
             hinted == e.isApi /\ IsSome(e.retryAfterMs) /\ Val(e.retryAfterMs) # 0
         IN  [st EXCEPT !.fetchErrorState = Some(retryState),
                        !.statusMessage =
                            IF hinted
                            THEN Some(e.message \o " (retry after ~"
                                      \o ToString(CeilSeconds(Val(e.retryAfterMs))) \o "s)")
                            ELSE Some(e.message)]

\* What a render reads from the query it observes (the result of useQuery).
\* dataObject tells the data objects of two answers apart, errorUpdateCount
\* the error objects of two failures.
Observed(q) ==
    [data |-> q.data, dataObject |-> q.dataObject, error |-> q.error,
     errorUpdateCount |-> q.errorUpdateCount,
     failureCount |-> q.failureCount, isFetching |-> q.phase # "idle"]

\* The effects after a render: an effect runs when one of its dependencies
\* changed since the previous render; the data effect is declared first.
\* The dependency batchQuery.data changed when the render read another
\* object than the render before, equal or not.
RunEffects(st, old, new) ==
    LET s1 == IF <<new.data, new.dataObject>> # <<old.data, old.dataObject>>
              THEN SeedFromBatch(st, new.data)
              ELSE st
    IN  IF <<new.error, new.errorUpdateCount, new.failureCount>>
              # <<old.error, old.errorUpdateCount, old.failureCount>>
        THEN TrackFetchError(s1, new.error, new.failureCount)
        ELSE s1

(***************************************************************************)
(* The batch query (useQuery with the options of the page)                 *)
(***************************************************************************)
\* phase: "idle", "request" (a request is on the wire) or "sleep" (the
\* retry delay is running).  failureReason is the error the retryer holds;
\* errorUpdateCount counts the errors the query has settled with and
\* dataObject the data objects it has held: two values of data are the same
\* object exactly when they were read of the same query under the same
\* dataObject.
QueryState(data, dataObject, error, errorUpdateCount, failureCount, phase, delay, failureReason) ==
    [data |-> data, dataObject |-> dataObject, error |-> error,
     errorUpdateCount |-> errorUpdateCount,
     failureCount |-> failureCount, phase |-> phase, delay |-> delay,
     failureReason |-> failureReason]

NewQuery == QueryState(None, 0, None, 0, 0, "request", 0, None)

IsFetching(q) == q.phase # "idle"

\* mutant: a new fetch carries on counting the failures of the last one
FetchStartKeepingCount(q) ==
    QueryState(q.data, q.dataObject, IF IsSome(q.data) THEN q.error ELSE None,
               q.errorUpdateCount, q.failureCount, "request", 0, None)

\* dispatch 'fetch': the failure count restarts; the error survives only
\* next to data
FetchStart(q) ==
    QueryState(q.data, q.dataObject, IF IsSome(q.data) THEN q.error ELSE None,
               q.errorUpdateCount, 0, "request", 0, None)

\* mutant: the invalidation marks the query and fetches nothing
RefetchedKeepingCache(q) == q

\* query.fetch(..., { cancelRefetch: true }) as refetch() and
\* invalidateQueries() call it on the observed query
Refetched(q) ==
    IF IsFetching(q) /\ ~IsSome(q.data) THEN q ELSE FetchStart(q)

\* dispatch 'success'.  useQuery (39-60) leaves the query's structural
\* sharing on: an answer equal to the data held in every member of
\* BatchResponse keeps the object held, any other answer is a new object.
FetchSuccess(q, response) ==
    QueryState(Some(response),
               IF q.data = Some(response) THEN q.dataObject ELSE q.dataObject + 1,
               None, q.errorUpdateCount, 0, "idle", 0, None)

\* dispatch 'error'
FetchError(q, error) ==
    QueryState(q.data, q.dataObject, Some(error), q.errorUpdateCount + 1,
               q.failureCount + 1, "idle", 0, Some(error))

\* dispatch 'failed' followed by the retry delay
FetchRetrying(q, error) ==
    QueryState(q.data, q.dataObject, q.error, q.errorUpdateCount, q.failureCount + 1,
               "sleep", RetryDelay(q.failureCount, error), Some(error))

(***************************************************************************)
(* The environment: the operator's inputs and the server's answers         *)
(***************************************************************************)
BatchIds == {"1", "2"}
CandidateNames == {DEFAULT_CANDIDATE_NAME, "Noor"}

\* "Item 1: Invalid date"
ErrItem1Date ==
    <<"I", "t", "e", "m", " ", "1", ":", " ",
      "I", "n", "v", "a", "l", "i", "d", " ", "d", "a", "t", "e">>
\* "Item 0: Amount must be positive"
ErrItem0Amount ==
    <<"I", "t", "e", "m", " ", "0", ":", " ", "A", "m", "o", "u", "n", "t", " ",
      "m", "u", "s", "t", " ", "b", "e", " ", "p", "o", "s", "i", "t", "i", "v", "e">>
\* "Item 2: Invalid date"
ErrItem2Date ==
    <<"I", "t", "e", "m", " ", "2", ":", " ",
      "I", "n", "v", "a", "l", "i", "d", " ", "d", "a", "t", "e">>
\* "Item 1: Expiry Date is in the past"
ErrItem1Expiry ==
    <<"I", "t", "e", "m", " ", "1", ":", " ", "E", "x", "p", "i", "r", "y", " ",
      "D", "a", "t", "e", " ", "i", "s", " ", "i", "n", " ", "t", "h", "e", " ",
      "p", "a", "s", "t">>
\* "Item 10: type missing"
ErrItem10Type ==
    <<"I", "t", "e", "m", " ", "1", "0", ":", " ",
      "t", "y", "p", "e", " ", "m", "i", "s", "s", "i", "n", "g">>
\* "Row Item 2: bad": the pattern inside freeform text
ErrEmbedded ==
    <<"R", "o", "w", " ", "I", "t", "e", "m", " ", "2", ":", " ", "b", "a", "d">>
\* "Item 1: bad" + line feed + "id": a detail of two lines
ErrTwoLines ==
    <<"I", "t", "e", "m", " ", "1", ":", " ", "b", "a", "d", "\n", "i", "d">>
\* "Item 1: a" + line separator + "b": a detail cut at U+2028
ErrLineSeparator ==
    <<"I", "t", "e", "m", " ", "1", ":", " ", "a", LS, "b">>
\* "General failure"
ErrGeneral ==
    <<"G", "e", "n", "e", "r", "a", "l", " ", "f", "a", "i", "l", "u", "r", "e">>
\* "Duplicate id"
WarnDuplicate == <<"D", "u", "p", "l", "i", "c", "a", "t", "e", " ", "i", "d">>

RowA == NormalizedItem(<<"D", "1">>, <<"N", "D", "A">>, <<"A", "c", "m", "e">>, <<"P", "1">>,
                       <<"2", "0", "3", "0">>, NumberOf(100), <<>>, <<WarnDuplicate>>, 0, TRUE)
RowB == NormalizedItem(<<"D", "2">>, <<"M", "S", "A">>, <<"B", "o", "l", "t">>, <<"P", "2">>,
                       <<"s", "o", "o", "n">>, NumberOf(40), <<ErrItem1Date>>, <<>>, 2, FALSE)
RowC == NormalizedItem(<<"D", "9">>, <<"S", "O", "W">>, <<"C", "o", "r", "e">>, <<"P", "9">>,
                       <<"2", "0", "2", "9">>, NumberOf(7), <<>>, <<>>, 0, TRUE)

RowD == NormalizedItem(<<"D", "3">>, <<"S", "O", "W">>, <<"D", "u", "n", "e">>, <<"P", "3">>,
                       <<"2", "0", "3", "1">>, NumberOf(9), <<>>, <<>>, 1, TRUE)

\* interface BatchResponse.  raw_items and upstream_payload are unknown to
\* the page, which only prints them: a raw item is kept as its document id.
BatchResponse(batch_id, candidate_id, raw_items, upstream_payload, normalized_items, summary) ==
    [batch_id |-> batch_id, candidate_id |-> candidate_id, raw_items |-> raw_items,
     upstream_payload |-> upstream_payload, normalized_items |-> normalized_items,
     summary |-> summary]

\* What the server may answer to GET /data/?batch=b.  Batch "1" has three
\* revisions of its data: two records out of three raw items, the same two
\* records out of four raw items (an answer that differs from the first in
\* raw_items, upstream_payload and summary only), and three records.
\* Batch "2" has one.
ServerBatches(b) ==
    IF b = "1"
    THEN {BatchResponse("1", <<"c", "7">>,
                        <<RowA.doc_id, RowA.doc_id, RowB.doc_id>>,
                        [items |-> <<RowA.doc_id, RowA.doc_id, RowB.doc_id>>],
                        <<RowA, RowB>>,
                        [total_raw_items |-> 3, normalized_items |-> 2,
                         duplicates_removed |-> <<RowA.doc_id>>, items_with_errors |-> 1]),
          BatchResponse("1", <<"c", "7">>,
                        <<RowA.doc_id, RowA.doc_id, RowB.doc_id, RowB.doc_id>>,
                        [items |-> <<RowA.doc_id, RowA.doc_id, RowB.doc_id, RowB.doc_id>>],
                        <<RowA, RowB>>,
                        [total_raw_items |-> 4, normalized_items |-> 2,
                         duplicates_removed |-> <<RowA.doc_id, RowB.doc_id>>,
                         items_with_errors |-> 1]),
          BatchResponse("1", <<"c", "7">>,
                        <<RowA.doc_id, RowD.doc_id, RowB.doc_id>>,
                        [items |-> <<RowA.doc_id, RowD.doc_id, RowB.doc_id>>],
                        <<RowA, RowB, RowD>>,
                        [total_raw_items |-> 3, normalized_items |-> 3,
                         duplicates_removed |-> <<>>, items_with_errors |-> 1])}
    ELSE {BatchResponse(b, <<"c", "7">>, <<RowC.doc_id>>, [items |-> <<RowC.doc_id>>],
                        <<RowC>>,
                        [total_raw_items |-> 1, normalized_items |-> 1,
                         duplicates_removed |-> <<>>, items_with_errors |-> 0])}

\* Failures of a request, as request() and fetch() raise them; origin is
\* filled in by the caller.
RateLimitedFailure(origin) ==
    MkError(TRUE, "429 Too Many Requests: Rate limited - slow down", Some(5000),
            Some(RATE_LIMITED), origin)
ServerFailure(origin) ==
    MkError(TRUE, "500 Internal Server Error: Request failed - boom", None, Some(500), origin)
UnavailableFailure(origin) ==
    MkError(TRUE, "503 Service Unavailable: Upstream down - retry", Some(1000),
            Some(UNAVAILABLE), origin)
BadGatewayFailure(origin) ==
    MkError(TRUE, "502 Bad Gateway: Upstream error - bad gateway", None, Some(BAD_GATEWAY), origin)
NetworkFailure(origin) ==
    MkError(FALSE, "Failed to fetch", None, None, origin)

\* What each operation is seen to fail with.
FetchFailures(b) == {RateLimitedFailure(b), UnavailableFailure(b), NetworkFailure(b)}
ValidateFailures == {ServerFailure("validate")}
SubmitFailures ==
    {UnavailableFailure("submit"), BadGatewayFailure("submit"), ServerFailure("submit"),
     NetworkFailure("submit")}

\* The edits the operator types: every field, and for the amount a number,
\* a negative number, a fraction and text.
EditValues(field) ==
    IF field = "amount" THEN {<<"7">>, <<"-", "5">>, <<"1", ".", "5">>, <<"x">>}
    ELSE {<<"x">>}

\* The server's cleaning of one submitted record.
CleanStyles == {"echo", "canon"}
ServerClean(style, item) ==
    IF style = "echo" THEN CleanedItem(item)
    ELSE [CleanedItem(item) EXCEPT !.type = <<"N", "D", "A">>]

ValidationErrorLists ==
    {<<>>, <<ErrItem0Amount>>, <<ErrItem1Date, ErrGeneral>>}

ValidationResponse(style, items, errors) ==
    [cleaned_items |-> [i \in 1..Len(items) |-> ServerClean(style, items[i])],
     errors |-> errors]

Scores == {80}
SubmitResponse(payload, score) ==
    [payload |-> payload, score_response |-> [score |-> score]]

(***************************************************************************)
(* State                                                                   *)
(***************************************************************************)
VARIABLES
    batch,            \* useState(DEFAULT_BATCH)
    candidateName,    \* useState(DEFAULT_CANDIDATE_NAME)
    editedItems,      \* the edit buffer
    rowErrors,        \* position -> detail strings
    globalErrors,     \* the flat error list of the last validation
    statusMessage,    \* optional status line
    fetchErrorState,  \* optional retry state
    queries,          \* the query cache: batch id -> optional query
    validateReq,      \* the items of the validate requests in flight, oldest first
    submitReq,        \* the payloads of the submit requests in flight, oldest first
    submitData,       \* the data of the submit mutation
    ops,              \* operator actions taken so far
    probe,            \* inputs and results of the retry callbacks (RetrySpec)
    pendingState,     \* the page state once the queued state updates are rendered
    rendered          \* what the last render read of the query and the mutations

vars == <<batch, candidateName, editedItems, rowErrors, globalErrors, statusMessage,
          fetchErrorState, queries, validateReq, submitReq, submitData, ops, probe,
          pendingState, rendered>>

\* The state variables of the page hold what the last render committed:
\* what the page shows and what the closures of its handlers read.
page == PageState(editedItems, rowErrors, globalErrors, statusMessage, fetchErrorState)

\* writes a page state back to the variables
SetPage(st) ==
    /\ editedItems' = st.editedItems
    /\ rowErrors' = st.rowErrors
    /\ globalErrors' = st.globalErrors
    /\ statusMessage' = st.statusMessage
    /\ fetchErrorState' = st.fetchErrorState

\* The page state with every queued state update applied.  A state update
\* made by an effect or by the callback of a mutation is queued and
\* rendered by a later render; until then the page shows the old state.
queuedPage == IF IsSome(pendingState) THEN Val(pendingState) ELSE page

\* The page shows `shown`; the updates still queued lead to `queued`.
Commit(shown, queued) ==
    /\ SetPage(shown)
    /\ pendingState' = IF queued = shown THEN None ELSE Some(queued)

\* What a render reads of the stores: the result of the query of the
\* requested batch id, and of the two mutations whether they are pending
\* and what the submit returned.
Snapshot(cache, key, validating, submitting, submitted) ==
    [batchQuery |-> Observed(Val(cache[key])),
     validatePending |-> IsSome(validating),
     submitPending |-> IsSome(submitting),
     submitData |-> submitted]

\* the query of the requested batch id as the cache holds it
observedQuery == Val(queries[batch])

\* The values of the last render: they decide what the page offers until the
\* next render.
batchQuery == rendered.batchQuery
isLoading == batchQuery.isFetching
isDataLoading == batchQuery.isFetching /\ ~IsSome(batchQuery.data)
validatePending == rendered.validatePending
submitPending == rendered.submitPending
disableSubmit ==
    DisableSubmit(submitPending, validatePending, rowErrors, globalErrors, fetchErrorState)
canSubmit == ~(disableSubmit \/ isLoading)

\* mutant: the Validate button follows the fetch only
validateDisabledByFetchOnly == isLoading

\* disabled attribute of the Validate button
validateDisabled == validatePending \/ isLoading

Init ==
    /\ batch = DEFAULT_BATCH
    /\ candidateName = DEFAULT_CANDIDATE_NAME
    /\ editedItems = <<>>
    /\ rowErrors = EmptyMap
    /\ globalErrors = <<>>
    /\ statusMessage = None
    /\ fetchErrorState = None
    /\ queries = [b \in BatchIds |-> IF b = DEFAULT_BATCH THEN Some(NewQuery) ELSE None]
    /\ validateReq = None
    /\ submitReq = None
    /\ submitData = None
    /\ ops = 0
    /\ probe = None
    /\ pendingState = None
    /\ rendered = Snapshot(queries, batch, validateReq, submitReq, submitData)

(***************************************************************************)
(* Renders                                                                 *)
(***************************************************************************)
\* A render commits the page state `shown` next to what the stores hold,
\* `snapshot`.  The effects whose dependencies changed since the previous
\* render run after it; their state updates join the queue, behind the
\* updates that lead to `queued`.
RenderPage(shown, queued, snapshot) ==
    /\ rendered' = snapshot
    /\ Commit(shown, RunEffects(queued, batchQuery, snapshot.batchQuery))

\* The stores tell their subscribers of a change some time after it was
\* made: the page renders what they hold now.  The queued state updates are
\* of a lower priority and stay queued.
Notify ==
    /\ rendered # Snapshot(queries, batch, validateReq, submitReq, submitData)
    /\ RenderPage(page, queuedPage,
                  Snapshot(queries, batch, validateReq, submitReq, submitData))
    /\ UNCHANGED <<probe, batch, candidateName, queries, validateReq, submitReq, submitData,
                   ops>>

\* The render of the queued state updates.
Render ==
    /\ IsSome(pendingState)
    /\ RenderPage(Val(pendingState), Val(pendingState),
                  Snapshot(queries, batch, validateReq, submitReq, submitData))
    /\ UNCHANGED <<probe, batch, candidateName, queries, validateReq, submitReq, submitData,
                   ops>>

(***************************************************************************)
(* Fetch: responses, retries, refetches                                    *)
(***************************************************************************)
\* mutant: the cache is not keyed, every answer lands in the query of the
\* requested batch id
QueryMovesUnkeyed(b, q) ==
    /\ queries' = [k \in BatchIds |-> IF k = batch THEN Some(q) ELSE
                                      IF k = b THEN None ELSE queries[k]]
    /\ UNCHANGED <<editedItems, rowErrors, globalErrors, statusMessage, fetchErrorState,
                   pendingState, rendered>>

\* The query of key b moves to q in the cache; the page renders it later.
\* A query without observer is collected as soon as it is idle (gcTime: 0).
QueryMoves(b, q) ==
    /\ queries' = [queries EXCEPT ![b] = IF b = batch \/ IsFetching(q) THEN Some(q) ELSE None]
    /\ UNCHANGED <<editedItems, rowErrors, globalErrors, statusMessage, fetchErrorState,
                   pendingState, rendered>>

\* GET /data/?batch=b answers 2xx
FetchSucceed(b, response) ==
    /\ IsSome(queries[b])
    /\ Val(queries[b]).phase = "request"
    /\ response \in ServerBatches(b)
    /\ QueryMoves(b, FetchSuccess(Val(queries[b]), response))
    /\ UNCHANGED <<probe, batch, candidateName, validateReq, submitReq, submitData, ops>>

\* The request fails: the retryer asks retry/retryDelay, unless its query
\* lost its observer (cancelRetry), and either sleeps or gives up.
FetchFail(b, error) ==
    /\ IsSome(queries[b])
    /\ Val(queries[b]).phase = "request"
    /\ error \in FetchFailures(b)
    /\ LET q == Val(queries[b])
       IN  IF b = batch /\ Retry(q.failureCount, error)
           THEN QueryMoves(b, FetchRetrying(q, error))
           ELSE QueryMoves(b, FetchError(q, error))
    /\ UNCHANGED <<probe, batch, candidateName, validateReq, submitReq, submitData, ops>>

\* The retry delay elapses: the request is issued again, or the fetch is
\* rejected with the last failure when the retry was cancelled meanwhile.
RetryFire(b) ==
    /\ IsSome(queries[b])
    /\ Val(queries[b]).phase = "sleep"
    /\ LET q == Val(queries[b])
       IN  IF b = batch
           THEN QueryMoves(b, [q EXCEPT !.phase = "request", !.delay = 0])
           ELSE QueryMoves(b, FetchError(q, Val(q.failureReason)))
    /\ UNCHANGED <<probe, batch, candidateName, validateReq, submitReq, submitData, ops>>

\* The three buttons below update no state of the page: the click makes
\* the cache fetch and renders nothing.

\* "Refresh" button
Refresh ==
    /\ ops < MaxOps
    /\ ~isLoading
    /\ QueryMoves(batch, Refetched(observedQuery))
    /\ ops' = ops + 1
    /\ UNCHANGED <<probe, batch, candidateName, validateReq, submitReq, submitData>>

\* "Retry now" button of the fetch error panel
RetryNow ==
    /\ ops < MaxOps
    /\ IsSome(fetchErrorState)
    /\ ~isLoading
    /\ QueryMoves(batch, Refetched(observedQuery))
    /\ ops' = ops + 1
    /\ UNCHANGED <<probe, batch, candidateName, validateReq, submitReq, submitData>>

\* "Reset cache" button of the fetch error panel
ResetCache ==
    /\ ops < MaxOps
    /\ IsSome(fetchErrorState)
    /\ ~isLoading
    /\ QueryMoves(batch, Refetched(observedQuery))
    /\ ops' = ops + 1
    /\ UNCHANGED <<probe, batch, candidateName, validateReq, submitReq, submitData>>

\* The state updates of a handler run in a click or a change event are
\* rendered at the end of the event, on the state the page shows, together
\* with what the stores hold then; they stay in the queue behind the
\* updates that are not rendered yet.

\* The operator types another batch id: the observer moves to the query of
\* the new key, creating and fetching it when the cache has none, and
\* resuming its retries when it is still in flight.  The query left behind
\* is collected when idle; otherwise its request runs on without retries.
SetBatch(b) ==
    /\ ops < MaxOps
    /\ b \in BatchIds \ {batch}
    /\ LET left == IF IsFetching(observedQuery) THEN queries[batch] ELSE None
           q == IF IsSome(queries[b]) THEN Val(queries[b]) ELSE NewQuery
       IN  queries' = [k \in BatchIds |-> IF k = b THEN Some(q) ELSE
                                          IF k = batch THEN left ELSE queries[k]]
    /\ batch' = b
    /\ RenderPage(page, queuedPage, Snapshot(queries', b, validateReq, submitReq, submitData))
    /\ ops' = ops + 1
    /\ UNCHANGED <<probe, candidateName, validateReq, submitReq, submitData>>

SetCandidateName(name) ==
    /\ ops < MaxOps
    /\ name \in CandidateNames \ {candidateName}
    /\ candidateName' = name
    /\ RenderPage(page, queuedPage,
                  Snapshot(queries, batch, validateReq, submitReq, submitData))
    /\ ops' = ops + 1
    /\ UNCHANGED <<probe, batch, queries, validateReq, submitReq, submitData>>

(***************************************************************************)
(* Editing, validating, submitting                                         *)
(***************************************************************************)
\* the two functional updates of handleFieldChange
FieldChangeUpdates(st, index, field, value) ==
    [st EXCEPT !.editedItems = EditItems(@, index, field, value),
               !.rowErrors = ClearRowErrors(@, index)]

\* handleFieldChange, from the input of a rendered row
FieldChange(index, field, value) ==
    /\ ops < MaxOps
    /\ ~isDataLoading
    /\ index \in 0..(Len(editedItems) - 1)
    /\ field \in PersistedFields
    /\ value \in EditValues(field)
    /\ RenderPage(FieldChangeUpdates(page, index, field, value),
                  FieldChangeUpdates(queuedPage, index, field, value),
                  Snapshot(queries, batch, validateReq, submitReq, submitData))
    /\ ops' = ops + 1
    /\ UNCHANGED <<probe, batch, candidateName, queries, validateReq, submitReq, submitData>>

\* handleValidate: the request carries the buffer the page shows
Validate ==
    /\ ops < MaxOps
    /\ ~validateDisabled
    /\ validateReq' = Append(validateReq, editedItems)
    /\ RenderPage([page EXCEPT !.statusMessage = Some("Validating...")],
                  [queuedPage EXCEPT !.statusMessage = Some("Validating...")],
                  Snapshot(queries, batch, validateReq', submitReq, submitData))
    /\ ops' = ops + 1
    /\ UNCHANGED <<probe, batch, candidateName, queries, submitReq, submitData>>

\* the state updates of validateMutation.onSuccess
ValidateSuccessUpdates(st, data) ==
    [st EXCEPT !.editedItems = MergeCleaned(@, data.cleaned_items),
               !.globalErrors = data.errors,
               !.rowErrors = ExtractRowErrors(data.errors),
               !.statusMessage = IF Len(data.errors) = 0
                                 THEN Some("Validation succeeded. Ready to submit.")
                                 ELSE Some("Please fix the highlighted validation issues.")]

\* validateMutation.onSuccess: its state updates join the queue and the
\* mutation is no longer pending; the page renders neither yet
ValidateSucceed(style, errors) ==
    /\ IsSome(validateReq)
    /\ style \in CleanStyles
    /\ errors \in ValidationErrorLists
    /\ Commit(page, ValidateSuccessUpdates(queuedPage,
                                           ValidationResponse(style, Val(validateReq), errors)))
    /\ validateReq' = Tail(validateReq)
    /\ UNCHANGED <<probe, batch, candidateName, queries, submitReq, submitData, ops,
                   rendered>>

\* validateMutation.onError
ValidateFail(error) ==
    /\ IsSome(validateReq)
    /\ error \in ValidateFailures
    /\ Commit(page, [queuedPage EXCEPT !.statusMessage = Some(error.message)])
    /\ validateReq' = Tail(validateReq)
    /\ UNCHANGED <<probe, batch, candidateName, queries, submitReq, submitData, ops,
                   rendered>>

\* handleSubmit: the payload is taken from what the page shows
Submit ==
    /\ ops < MaxOps
    /\ canSubmit
    /\ submitReq' = Append(submitReq,
                           SubmitPayload(candidateName,
                                         IF IsSome(batchQuery.data)
                                         THEN Val(batchQuery.data).batch_id ELSE batch,
                                         editedItems))
    /\ submitData' = None
    /\ RenderPage([page EXCEPT !.statusMessage = Some("Submitting...")],
                  [queuedPage EXCEPT !.statusMessage = Some("Submitting...")],
                  Snapshot(queries, batch, validateReq, submitReq', None))
    /\ ops' = ops + 1
    /\ UNCHANGED <<probe, batch, candidateName, queries, validateReq>>

\* submitMutation.onSuccess: the status line is queued, then
\* invalidateQueries on the current key refetches the observed query
SubmitSucceed(score) ==
    /\ IsSome(submitReq)
    /\ score \in Scores
    /\ queries' = [queries EXCEPT ![batch] = Some(Refetched(observedQuery))]
    /\ Commit(page, [queuedPage EXCEPT !.statusMessage =
                        Some("Submission successful! Score: " \o ToString(score))])
    /\ submitData' = Some(SubmitResponse(Val(submitReq), score))
    /\ submitReq' = Tail(submitReq)
    /\ UNCHANGED <<probe, batch, candidateName, validateReq, ops, rendered>>

\* submitMutation.onError
SubmitFail(error) ==
    /\ IsSome(submitReq)
    /\ error \in SubmitFailures
    /\ Commit(page, [queuedPage EXCEPT !.statusMessage = Some(SubmitFailureMessage(error))])
    /\ submitReq' = Tail(submitReq)
    /\ UNCHANGED <<probe, batch, candidateName, queries, validateReq, submitData, ops,
                   rendered>>

Next ==
    \/ \E b \in BatchIds : \E r \in ServerBatches(b) : FetchSucceed(b, r)
    \/ \E b \in BatchIds : \E e \in FetchFailures(b) : FetchFail(b, e)
    \/ \E b \in BatchIds : RetryFire(b)
    \/ Notify
    \/ Render
    \/ Refresh
    \/ RetryNow
    \/ ResetCache
    \/ \E b \in BatchIds : SetBatch(b)
    \/ \E n \in CandidateNames : SetCandidateName(n)
    \/ \E i \in 0..(Len(editedItems) - 1) : \E f \in PersistedFields :
          \E v \in EditValues(f) : FieldChange(i, f, v)
    \/ Validate
    \/ \E s \in CleanStyles : \E e \in ValidationErrorLists : ValidateSucceed(s, e)
    \/ \E e \in ValidateFailures : ValidateFail(e)
    \/ Submit
    \/ \E sc \in Scores : SubmitSucceed(sc)
    \/ \E e \in SubmitFailures : SubmitFail(e)

Spec == Init /\ [][Next]_vars

(***************************************************************************)
(* The retry callbacks on their own: every failure count up to MaxAttempt  *)
(* with every shape of error                                               *)
(***************************************************************************)
ProbeErrors ==
    {MkError(TRUE, "failure", w, st, "probe") :
        w \in {None, Some(0), Some(1000), Some(5000)},
        st \in {None, Some(RATE_LIMITED), Some(500), Some(UNAVAILABLE)}}
    \cup {NetworkFailure("probe")}

RetryInit ==
    /\ batch = DEFAULT_BATCH
    /\ candidateName = DEFAULT_CANDIDATE_NAME
    /\ editedItems = <<>>
    /\ rowErrors = EmptyMap
    /\ globalErrors = <<>>
    /\ statusMessage = None
    /\ fetchErrorState = None
    /\ queries = [b \in BatchIds |-> IF b = DEFAULT_BATCH THEN Some(NewQuery) ELSE None]
    /\ validateReq = None
    /\ submitReq = None
    /\ submitData = None
    /\ ops = 0
    /\ pendingState = None
    /\ rendered = Snapshot(queries, batch, validateReq, submitReq, submitData)
    /\ \E n \in 0..MaxAttempt : \E e \in ProbeErrors :
          probe = Some([failureCount |-> n, error |-> e, retry |-> None, retryDelay |-> None])

\* the retryer asks retry(failureCount, error)
AskRetry ==
    /\ IsSome(probe)
    /\ ~IsSome(Val(probe).retry)
    /\ probe' = Some([Val(probe) EXCEPT
                         !.retry = Some(Retry(Val(probe).failureCount, Val(probe).error))])
    /\ UNCHANGED <<batch, candidateName, editedItems, rowErrors, globalErrors, statusMessage,
                   fetchErrorState, queries, validateReq, submitReq, submitData, ops,
                   pendingState, rendered>>

\* the retryer asks retryDelay(failureCount, error)
AskRetryDelay ==
    /\ IsSome(probe)
    /\ ~IsSome(Val(probe).retryDelay)
    /\ probe' = Some([Val(probe) EXCEPT
                         !.retryDelay =
                             Some(RetryDelay(Val(probe).failureCount, Val(probe).error))])
    /\ UNCHANGED <<batch, candidateName, editedItems, rowErrors, globalErrors, statusMessage,
                   fetchErrorState, queries, validateReq, submitReq, submitData, ops,
                   pendingState, rendered>>

RetryNext == AskRetry \/ AskRetryDelay

RetrySpec == RetryInit /\ [][RetryNext]_vars

(***************************************************************************)
(* The error mapper and the row view on their own: every flat error list   *)
(* up to MaxErrors strings, read by the mapper, optionally edited at one   *)
(* row, and looked up for that row                                         *)
(***************************************************************************)
ProbeStrings ==
    {ErrItem0Amount, ErrItem1Date, ErrItem2Date, ErrItem1Expiry, ErrItem10Type,
     ErrEmbedded, ErrTwoLines, ErrLineSeparator, ErrGeneral}

RECURSIVE ListsUpTo(_, _)
ListsUpTo(S, n) ==
    IF n = 0 THEN {<<>>}
    ELSE LET shorter == ListsUpTo(S, n - 1)
         IN  shorter \cup {Append(l, x) : l \in {t \in shorter : Len(t) = n - 1}, x \in S}

ViewInit ==
    /\ batch = DEFAULT_BATCH
    /\ candidateName = DEFAULT_CANDIDATE_NAME
    /\ editedItems = <<>>
    /\ rowErrors = EmptyMap
    /\ globalErrors = <<>>
    /\ statusMessage = None
    /\ fetchErrorState = None
    /\ queries = [b \in BatchIds |-> IF b = DEFAULT_BATCH THEN Some(NewQuery) ELSE None]
    /\ validateReq = None
    /\ submitReq = None
    /\ submitData = None
    /\ ops = 0
    /\ pendingState = None
    /\ rendered = Snapshot(queries, batch, validateReq, submitReq, submitData)
    /\ \E errors \in ListsUpTo(ProbeStrings, MaxErrors) : \E index \in 0..2 :
          \E base \in {<<>>, <<ErrItem1Date>>} :
            probe = Some([errors |-> errors, index |-> index, baseErrors |-> base,
                          map |-> None, rowErrors |-> None, lookup |-> None])

\* setRowErrors(extractRowErrors(data.errors))
AskExtract ==
    /\ IsSome(probe)
    /\ ~IsSome(Val(probe).map)
    /\ LET m == ExtractRowErrors(Val(probe).errors)
       IN  probe' = Some([Val(probe) EXCEPT !.map = Some(m), !.rowErrors = Some(m)])
    /\ UNCHANGED <<batch, candidateName, editedItems, rowErrors, globalErrors, statusMessage,
                   fetchErrorState, queries, validateReq, submitReq, submitData, ops,
                   pendingState, rendered>>

\* the row of the probe is edited: its entry of the map is emptied
AskClearRow ==
    /\ IsSome(probe)
    /\ IsSome(Val(probe).map)
    /\ Val(probe).rowErrors = Val(probe).map
    /\ ~IsSome(Val(probe).lookup)
    /\ probe' = Some([Val(probe) EXCEPT
                         !.rowErrors = Some(ClearRowErrors(Val(Val(probe).map),
                                                           Val(probe).index))])
    /\ UNCHANGED <<batch, candidateName, editedItems, rowErrors, globalErrors, statusMessage,
                   fetchErrorState, queries, validateReq, submitReq, submitData, ops,
                   pendingState, rendered>>

\* the row of the probe is rendered: the six field lookups and the count
AskFieldErrors ==
    /\ IsSome(probe)
    /\ IsSome(Val(probe).rowErrors)
    /\ ~IsSome(Val(probe).lookup)
    /\ LET pr == Val(probe)
           rowErrs == Val(pr.rowErrors)
       IN  probe' = Some([pr EXCEPT !.lookup =
                 Some([fieldErrors |->
                          [f \in PersistedFields |->
                              GetFieldErrors(rowErrs, pr.index, f, pr.baseErrors)],
                       rowIssueCount |-> RowIssueCount(rowErrs, pr.index, pr.baseErrors)])])
    /\ UNCHANGED <<batch, candidateName, editedItems, rowErrors, globalErrors, statusMessage,
                   fetchErrorState, queries, validateReq, submitReq, submitData, ops,
                   pendingState, rendered>>

ViewNext == AskExtract \/ AskClearRow \/ AskFieldErrors

ErrorViewSpec == ViewInit /\ [][ViewNext]_vars

(***************************************************************************)
(* The remote client on its own: request() for every outcome of fetch()    *)
(***************************************************************************)
ProbeBodies ==
    {ObjectBody(m, d, w, u) :
        m \in {None, Some("Rate limited")}, d \in {None, Some("slow down")},
        w \in {None, Some(0), Some(5000)},
        u \in {None, Some(RATE_LIMITED), Some(UNAVAILABLE)}}
    \cup {NullBody, HtmlBody}

ProbeOutcomes ==
    {[kind |-> "rejected"]}
    \cup {[kind |-> "response", status |-> st[1], statusText |-> st[2], body |-> b] :
            st \in {<<200, "OK">>, <<429, "Too Many Requests">>,
                     <<500, "Internal Server Error">>, <<503, "Service Unavailable">>},
            b \in ProbeBodies}

RequestInit ==
    /\ batch = DEFAULT_BATCH
    /\ candidateName = DEFAULT_CANDIDATE_NAME
    /\ editedItems = <<>>
    /\ rowErrors = EmptyMap
    /\ globalErrors = <<>>
    /\ statusMessage = None
    /\ fetchErrorState = None
    /\ queries = [b \in BatchIds |-> IF b = DEFAULT_BATCH THEN Some(NewQuery) ELSE None]
    /\ validateReq = None
    /\ submitReq = None
    /\ submitData = None
    /\ ops = 0
    /\ pendingState = None
    /\ rendered = Snapshot(queries, batch, validateReq, submitReq, submitData)
    /\ \E o \in ProbeOutcomes : probe = Some([outcome |-> o, result |-> None])

\* the caller awaits request()
AskRequest ==
    /\ IsSome(probe)
    /\ ~IsSome(Val(probe).result)
    /\ probe' = Some([Val(probe) EXCEPT !.result = Some(Request(Val(probe).outcome, "probe"))])
    /\ UNCHANGED <<batch, candidateName, editedItems, rowErrors, globalErrors, statusMessage,
                   fetchErrorState, queries, validateReq, submitReq, submitData, ops,
                   pendingState, rendered>>

RequestNext == AskRequest

RequestSpec == RequestInit /\ [][RequestNext]_vars

(***************************************************************************)
(* Vocabulary of the properties                                            *)
(***************************************************************************)
\* an operator action is taken in this step
OperatorStep == ops' = ops + 1

\* a submit response is applied successfully in this step
SubmitSuccessStep == IsSome(submitReq) /\ submitReq' = None /\ IsSome(submitData')

\* the last failure of query q carried upstream status 429 / another status
LastFailureRateLimited(q) ==
    /\ IsSome(q.failureReason)
    /\ Val(q.failureReason).isApi
    /\ Val(q.failureReason).upstreamStatus = Some(429)
LastFailureOther(q) ==
    /\ IsSome(q.failureReason)
    /\ ~(Val(q.failureReason).isApi /\ Val(q.failureReason).upstreamStatus = Some(429))

\* the observed query stays the query of the same key in this step
SameQuery == batch' = batch

\* the request of the observed query fails in this step
ObservedFailStep ==
    /\ SameQuery
    /\ observedQuery.phase = "request"
    /\ Val(queries'[batch]).failureCount = observedQuery.failureCount + 1

\* the page showed the fetch of the requested batch under way, and the
\* render of this step shows it answered with a batch
FetchShown ==
    /\ SameQuery
    /\ batchQuery.isFetching
    /\ ~rendered'.batchQuery.isFetching
    /\ IsSome(rendered'.batchQuery.data)
    /\ ~IsSome(rendered'.batchQuery.error)

\* the render of this step reads a data object the render before it did
\* not read, which queues the seeding of the buffer
SeedQueued ==
    /\ IsSome(rendered'.batchQuery.data)
    /\ <<rendered'.batchQuery.data, rendered'.batchQuery.dataObject>>
         # <<batchQuery.data, batchQuery.dataObject>>

DetailInvalidDate == <<"I", "n", "v", "a", "l", "i", "d", " ", "d", "a", "t", "e">>
DetailAmountPositive ==
    <<"A", "m", "o", "u", "n", "t", " ", "m", "u", "s", "t", " ",
      "b", "e", " ", "p", "o", "s", "i", "t", "i", "v", "e">>

(***************************************************************************)
(* C1                                                                      *)
(***************************************************************************)
\* C1 as stated: after a failure with upstream status 429 of the fetch of
\* the requested batch no retry is scheduled, and the query (its attempt
\* count, its request) moves again only by an operator action.
C1_OnlyManualAfterRateLimit ==
    [][ LastFailureRateLimited(observedQuery)
          => /\ observedQuery.phase = "idle"
             /\ (queries'[batch] = queries[batch] \/ OperatorStep) ]_vars

\* C1 amended: the same, except that the invalidation performed by a
\* successful submit also starts a fetch.
C1_NoAutoRetryAfterRateLimit ==
    [][ LastFailureRateLimited(observedQuery)
          => /\ observedQuery.phase = "idle"
             /\ (queries'[batch] = queries[batch] \/ OperatorStep \/ SubmitSuccessStep) ]_vars

\* a 429 arrived after two retried failures and the fetch stopped there;
\* the page shows it
C1_Witness ==
    /\ LastFailureRateLimited(observedQuery)
    /\ observedQuery.phase = "idle"
    /\ observedQuery.failureCount = 3
    /\ IsSome(fetchErrorState)
    /\ Val(fetchErrorState).attempts = 3
    /\ Val(fetchErrorState).retryAfterMs = Some(5000)

(***************************************************************************)
(* C2                                                                      *)
(***************************************************************************)
\* the three parts of C2 for one step, with the steps allowed to start a
\* fetch after the terminal failure given by `allowed`
RetryCapStep(allowed) ==
    LET q == observedQuery
        q2 == Val(queries'[batch])
    IN  /\ (ObservedFailStep /\ LastFailureOther(q2))
            => /\ (q2.phase = "sleep") <=> (q.failureCount < 3)
               /\ (q2.phase = "idle" /\ IsSome(q2.error)) <=> (q.failureCount >= 3)
        /\ (SameQuery /\ q.phase = "sleep" /\ queries'[batch] # queries[batch])
            => q2.phase = "request"
        /\ (q.phase = "idle" /\ LastFailureOther(q))
            => (queries'[batch] = queries[batch] \/ allowed)

\* C2 as stated: a failure with a status other than 429 is followed by a
\* retry exactly when the attempt count is below 3, and after the cap only
\* an operator action starts a fetch.
C2_OnlyOperatorAfterCap == [][ RetryCapStep(OperatorStep) ]_vars

\* C2 amended: for the fetch of the requested batch, and with the
\* invalidation of a successful submit also starting a fetch after the cap.
C2_RetryIffBelowCap == [][ RetryCapStep(OperatorStep \/ SubmitSuccessStep) ]_vars

\* the cap was reached: four failures, the last one terminal
C2_Witness ==
    /\ LastFailureOther(observedQuery)
    /\ observedQuery.phase = "idle"
    /\ observedQuery.failureCount = 4
    /\ IsSome(fetchErrorState)
    /\ Val(fetchErrorState).attempts = 4

(***************************************************************************)
(* C3                                                                      *)
(***************************************************************************)
\* C3: the retry delay is the server-suggested wait plus 300 ms when the
\* failure carries one, and otherwise 1000, 2000, 4000 ms for attempts 0,
\* 1, 2 and 4000 ms from attempt 3 on.
C3_BackoffDelay ==
    (IsSome(probe) /\ IsSome(Val(probe).retryDelay))
        => LET n == Val(probe).failureCount
               e == Val(probe).error
               d == Val(Val(probe).retryDelay)
           IN  IF e.isApi /\ e.retryAfterMs # None
               THEN d = Val(e.retryAfterMs) + 300
               ELSE d = CASE n = 0 -> 1000
                          [] n = 1 -> 2000
                          [] n = 2 -> 4000
                          [] OTHER -> 4000

\* attempt 3 without a suggested wait was asked and answered with the cap
C3_Witness ==
    /\ IsSome(probe)
    /\ Val(probe).failureCount = 3
    /\ Val(probe).error.retryAfterMs = None
    /\ Val(probe).retryDelay = Some(4000)

(***************************************************************************)
(* C4                                                                      *)
(***************************************************************************)
\* C4: every successful fetch of the requested batch leaves the page, once
\* it is shown and the updates it queued are rendered, with the buffer
\* equal to the records of the returned batch and the row errors, global
\* errors, status message and retry state cleared.
C4_FetchReplacesWholesale ==
    [][ FetchShown
          => queuedPage' = PageState(Val(rendered'.batchQuery.data).normalized_items,
                                     EmptyMap, <<>>, None, None) ]_vars

(***************************************************************************)
(* C5                                                                      *)
(***************************************************************************)
\* C5: when a second fetch of the same batch id returns the data the first
\* one returned, the buffer is, once the queued updates are rendered, again
\* exactly the records of that data, whatever was edited in between.
C5_RefetchIdempotent ==
    [][ (FetchShown /\ rendered'.batchQuery.data = batchQuery.data)
          => queuedPage'.editedItems = Val(batchQuery.data).normalized_items ]_vars

(***************************************************************************)
(* C6                                                                      *)
(***************************************************************************)
AllFields ==
    PersistedFields \cup {"errors", "warnings", "source_index", "is_valid"}

\* what the typed text stands for in the edited field
TypedValue(field, value) ==
    IF field # "amount" THEN value
    ELSE CASE value = <<"7">> -> JsNum(FALSE, <<7>>, 0, FALSE)
           [] value = <<"-", "5">> -> JsNum(TRUE, <<5>>, 0, FALSE)
           [] value = <<"1", ".", "5">> -> JsNum(FALSE, <<3>>, 0 - 1, FALSE)
           [] OTHER -> JsNum(FALSE, <<>>, 0, FALSE)

\* C6: a field edit (i, f, v) sets field f of Record[i] to the typed value,
\* sets its is_valid, empties row i's entry of the error map, and leaves
\* the other fields of Record[i], the other Records, the length, the other
\* rows' entries and the global errors as they were.
C6_FieldEditFrame ==
    [][ \A i \in 0..(Len(editedItems) - 1) : \A f \in PersistedFields :
          \A v \in EditValues(f) :
            FieldChange(i, f, v)
              => /\ Len(editedItems') = Len(editedItems)
                 /\ \A j \in 1..Len(editedItems) :
                       j # i + 1 => editedItems'[j] = editedItems[j]
                 /\ editedItems'[i + 1][f] = TypedValue(f, v)
                 /\ editedItems'[i + 1].is_valid = TRUE
                 /\ \A g \in AllFields \ {f, "is_valid"} :
                       editedItems'[i + 1][g] = editedItems[i + 1][g]
                 /\ DOMAIN rowErrors' = DOMAIN rowErrors \cup {i}
                 /\ rowErrors'[i] = <<>>
                 /\ \A k \in DOMAIN rowErrors \ {i} : rowErrors'[k] = rowErrors[k]
                 /\ globalErrors' = globalErrors ]_vars

\* row 0 was edited while row 1 keeps the error the validation gave it
C6_Witness ==
    /\ DOMAIN rowErrors = {0, 1}
    /\ rowErrors[0] = <<>>
    /\ rowErrors[1] = <<DetailInvalidDate>>
    /\ Len(globalErrors) = 2
    /\ Len(editedItems) = 2
    /\ editedItems[1].amount = NumberOf(0 - 5)
    /\ editedItems[2] = [RowB EXCEPT !.errors = <<>>, !.is_valid = TRUE]

(***************************************************************************)
(* C7                                                                      *)
(***************************************************************************)
\* the row map the three validation answers stand for
ExpectedRowMap(errors) ==
    CASE errors = <<>> -> EmptyMap
      [] errors = <<ErrItem0Amount>> -> [k \in {0} |-> <<DetailAmountPositive>>]
      [] errors = <<ErrItem1Date, ErrGeneral>> -> [k \in {1} |-> <<DetailInvalidDate>>]

\* C7: a successful validate response queues the updates that make
\* Record[i] the six cleaned fields of position i with the warnings and
\* source_index Record[i] had when the response was applied (the buffer
\* with every queued update), no errors and is_valid set, and that make the
\* row error map the error mapper's reading of the response's flat error
\* list; the page shows them with the next render of the queue.
C7_ValidateMerge ==
    [][ \A s \in CleanStyles : \A e \in ValidationErrorLists :
          ValidateSucceed(s, e)
            => LET sent == Val(validateReq)
                   before == queuedPage.editedItems
                   after == queuedPage'.editedItems
               IN  /\ \A i \in 1..Len(sent) :
                        /\ i \in DOMAIN after
                        /\ \A g \in PersistedFields :
                              after[i][g] = ServerClean(s, sent[i])[g]
                        /\ after[i].errors = <<>>
                        /\ after[i].is_valid = TRUE
                        /\ i \in DOMAIN before
                              => /\ after[i].warnings = before[i].warnings
                                 /\ after[i].source_index = before[i].source_index
                   /\ queuedPage'.rowErrors = ExpectedRowMap(e)
                   /\ queuedPage'.globalErrors = e ]_vars

\* a validation cleaned the type of row 1 and reported its date; both rows
\* kept their warnings and source_index
C7_Witness ==
    /\ validateReq = None
    /\ globalErrors = <<ErrItem1Date, ErrGeneral>>
    /\ rowErrors = [k \in {1} |-> <<DetailInvalidDate>>]
    /\ Len(editedItems) = 2
    /\ editedItems[1].warnings = <<WarnDuplicate>>
    /\ editedItems[2].type = <<"N", "D", "A">>
    /\ editedItems[2].source_index = 2
    /\ editedItems[2].errors = <<>>
    /\ editedItems[2].is_valid

(***************************************************************************)
(* C8                                                                      *)
(***************************************************************************)
\* C8: applying a successful validate response leaves the buffer, the
\* queued updates applied, with as many Records as the validate request
\* carried.
C8_ValidateKeepsLength ==
    [][ \A s \in CleanStyles : \A e \in ValidationErrorLists :
          ValidateSucceed(s, e)
            => Len(queuedPage'.editedItems) = Len(Val(validateReq)) ]_vars

\* the response of a validate of batch "1" (two records) was applied after
\* batch "2" (one record) had been loaded
C8_Witness ==
    /\ batch = "2"
    /\ validateReq = None
    /\ IsSome(batchQuery.data)
    /\ Len(Val(batchQuery.data).normalized_items) = 1
    /\ Len(editedItems) = 2
    /\ editedItems[1].doc_id = RowA.doc_id

(***************************************************************************)
(* C9                                                                      *)
(***************************************************************************)
\* C9: a failed fetch, validate or submit adds no update of the buffer, the
\* row error map or the global error list and changes nothing of what the
\* page shows of them; a failed validate or submit queues nothing but a
\* status message; and a render that shows no new batch, as the render of
\* a failed fetch, queues no update of the three either.
C9_FailurePreservesBuffer ==
    [][ /\ ( \/ \E b \in BatchIds : \E e \in FetchFailures(b) : FetchFail(b, e)
             \/ \E e \in ValidateFailures : ValidateFail(e)
             \/ \E e \in SubmitFailures : SubmitFail(e) )
             => /\ queuedPage'.editedItems = queuedPage.editedItems
                /\ queuedPage'.rowErrors = queuedPage.rowErrors
                /\ queuedPage'.globalErrors = queuedPage.globalErrors
                /\ UNCHANGED <<editedItems, rowErrors, globalErrors>>
        /\ ( \/ \E e \in ValidateFailures : ValidateFail(e)
             \/ \E e \in SubmitFailures : SubmitFail(e) )
             => /\ queuedPage'.fetchErrorState = queuedPage.fetchErrorState
                /\ queries' = queries
                /\ queuedPage'.statusMessage # None
        /\ (~OperatorStep /\ ~SeedQueued /\ validateReq' = validateReq)
             => /\ queuedPage'.editedItems = queuedPage.editedItems
                /\ queuedPage'.rowErrors = queuedPage.rowErrors
                /\ queuedPage'.globalErrors = queuedPage.globalErrors ]_vars

\* a refetch failed for good under an edited buffer
C9_Witness ==
    /\ IsSome(fetchErrorState)
    /\ ~isLoading
    /\ Len(editedItems) = 2
    /\ editedItems[1].doc_id = <<"x">>
    /\ editedItems[2] = RowB

(***************************************************************************)
(* C10                                                                     *)
(***************************************************************************)
\* C10: when a submit request is issued, no submit and no validate is
\* pending, no row of the error map has errors and the global error list
\* is empty, as the page shows them and with the queued updates applied,
\* and no fetch failure is unresolved: the page holds no retry state and
\* the query of the requested batch no error.
C10_SubmitOnlyWhenPermitted ==
    [][ (submitReq = None /\ submitReq' # None)
          => /\ validateReq = None
             /\ \A k \in DOMAIN rowErrors : rowErrors[k] = <<>>
             /\ globalErrors = <<>>
             /\ \A k \in DOMAIN queuedPage.rowErrors : queuedPage.rowErrors[k] = <<>>
             /\ queuedPage.globalErrors = <<>>
             /\ fetchErrorState = None
             /\ ~IsSome(observedQuery.error) ]_vars

(***************************************************************************)
(* C11                                                                     *)
(***************************************************************************)
\* the error list row i shows: its entry of the row map when present,
\* otherwise the errors its Record carries
ShownRowErrors(i) == RowErrorList(rowErrors, i, editedItems[i + 1].errors)

\* C11: whenever some row shows a non-empty error list, submission is not
\* permitted, whatever the global error list holds.
C11_RowErrorsBlockSubmit ==
    (\E i \in 0..(Len(editedItems) - 1) : ShownRowErrors(i) # <<>>) => ~canSubmit

(***************************************************************************)
(* C12                                                                     *)
(***************************************************************************)
\* the page shows no fetch, validate or submit pending
NothingPending == ~submitPending /\ ~validatePending /\ ~isLoading

\* C12 as stated: with no row showing errors, no global errors and no
\* operation pending, submission is permitted.
C12_GateOpensWithoutErrors ==
    ( /\ \A i \in 0..(Len(editedItems) - 1) : ShownRowErrors(i) = <<>>
      /\ globalErrors = <<>>
      /\ NothingPending )
        => canSubmit

\* C12 amended: with no non-empty entry in the row error map, no global
\* errors, no operation pending and no unresolved fetch failure,
\* submission is permitted.
C12_GateOpensWhenClear ==
    ( /\ \A k \in DOMAIN rowErrors : rowErrors[k] = <<>>
      /\ globalErrors = <<>>
      /\ NothingPending
      /\ fetchErrorState = None )
        => canSubmit

\* submission is permitted after an edit left an empty entry in the row map
C12_Witness ==
    /\ canSubmit
    /\ DOMAIN rowErrors = {0}
    /\ rowErrors[0] = <<>>
    /\ Len(editedItems) = 2
    /\ editedItems[1].doc_id = <<"x">>

(***************************************************************************)
(* C13                                                                     *)
(***************************************************************************)
\* the text has the form "Item N: detail", N a run of decimal digits that
\* ends at position k
ItemFormAt(text, k) ==
    /\ k >= 6
    /\ k + 2 <= Len(text)
    /\ SubSeq(text, 1, 5) = <<"I", "t", "e", "m", " ">>
    /\ \A j \in 6..k : text[j] \in Digits
    /\ text[k + 1] = ":"
    /\ text[k + 2] = " "
HasItemForm(text) == \E k \in 1..Len(text) : ItemFormAt(text, k)
FormEnd(text) == CHOOSE k \in 1..Len(text) : ItemFormAt(text, k)
FormPosition(text) == ParseInt(SubSeq(text, 6, FormEnd(text)))
FormDetail(text) == SubSeq(text, FormEnd(text) + 3, Len(text))

\* the details, in input order, of the strings of the list attributed to N
RECURSIVE DetailsFor(_, _)
DetailsFor(errors, n) ==
    IF Len(errors) = 0 THEN <<>>
    ELSE (IF HasItemForm(Head(errors)) /\ FormPosition(Head(errors)) = n
          THEN <<FormDetail(Head(errors))>> ELSE <<>>)
         \o DetailsFor(Tail(errors), n)

\* C13: the row map of a flat error list has, for each position N named
\* by a string of the form "Item N: detail", the details of those strings
\* in input order, and no entry for any other position; a string not of
\* that form contributes to no entry.
C13_ErrorMapper ==
    (IsSome(probe) /\ IsSome(Val(probe).map))
        => LET errors == Val(probe).errors
               named == {FormPosition(errors[j]) :
                            j \in {i \in 1..Len(errors) : HasItemForm(errors[i])}}
           IN  Val(Val(probe).map) = [n \in named |-> DetailsFor(errors, n)]

(***************************************************************************)
(* C14                                                                     *)
(***************************************************************************)
\* a field's name with underscores replaced by spaces
FieldLabel(f) ==
    CASE f = "doc_id" -> <<"d", "o", "c", " ", "i", "d">>
      [] f = "type" -> <<"t", "y", "p", "e">>
      [] f = "counterparty" -> <<"c", "o", "u", "n", "t", "e", "r", "p", "a", "r", "t", "y">>
      [] f = "project" -> <<"p", "r", "o", "j", "e", "c", "t">>
      [] f = "expiry_date" -> <<"e", "x", "p", "i", "r", "y", " ", "d", "a", "t", "e">>
      [] f = "amount" -> <<"a", "m", "o", "u", "n", "t">>

\* the same character up to the case of a letter
SameLetter(a, b) ==
    \/ a = b
    \/ \E u \in 1..Len(UpperCase) : {a, b} = {UpperCase[u], LowerCase[u]}

\* the detail contains the label, case-insensitively
ContainsLabel(detail, label) ==
    \E p \in 1..(Len(detail) - Len(label) + 1) :
        \A k \in 1..Len(label) : SameLetter(detail[p + k - 1], label[k])

RECURSIVE DetailsOfField(_, _)
DetailsOfField(details, f) ==
    IF Len(details) = 0 THEN <<>>
    ELSE (IF ContainsLabel(Head(details), FieldLabel(f)) THEN <<Head(details)>> ELSE <<>>)
         \o DetailsOfField(Tail(details), f)

\* the detail strings of the probed row
ProbedRowDetails ==
    RowErrorList(Val(Val(probe).rowErrors), Val(probe).index, Val(probe).baseErrors)

\* C14: the lookup for (row i, field f) returns exactly the details of
\* row i that contain f's name, underscores as spaces, case-insensitively;
\* a detail that matches no field is returned by no lookup, and every
\* detail of the row counts in the row's issue count.
C14_FieldAttribution ==
    (IsSome(probe) /\ IsSome(Val(probe).lookup))
        => LET look == Val(Val(probe).lookup)
               details == ProbedRowDetails
           IN  /\ \A f \in PersistedFields :
                     look.fieldErrors[f] = DetailsOfField(details, f)
               /\ \A j \in 1..Len(details) :
                     (\A f \in PersistedFields :
                         ~ContainsLabel(details[j], FieldLabel(f)))
                       => \A f \in PersistedFields : \A k \in 1..Len(look.fieldErrors[f]) :
                             look.fieldErrors[f][k] # details[j]
               /\ look.rowIssueCount >= Len(details)

\* row 1 has "Expiry Date is in the past", found under expiry_date, and
\* "Invalid date", found under no field; both count
C14_Witness ==
    /\ IsSome(probe)
    /\ IsSome(Val(probe).lookup)
    /\ Val(probe).index = 1
    /\ Val(probe).errors = <<ErrItem1Expiry, ErrItem1Date>>
    /\ Val(probe).rowErrors = Val(probe).map
    /\ LET look == Val(Val(probe).lookup)
       IN  /\ look.fieldErrors["expiry_date"] =
                 << <<"E", "x", "p", "i", "r", "y", " ", "D", "a", "t", "e", " ",
                      "i", "s", " ", "i", "n", " ", "t", "h", "e", " ",
                      "p", "a", "s", "t">> >>
           /\ \A f \in PersistedFields \ {"expiry_date"} : look.fieldErrors[f] = <<>>
           /\ look.rowIssueCount >= 2

(***************************************************************************)
(* C15                                                                     *)
(***************************************************************************)
\* the render of this step shows batch "1" loaded with three records of
\* which the one at position 1 carries "Item 1: Invalid date"
LoadsThreeRecords ==
    /\ SameQuery
    /\ batch = "1"
    /\ SeedQueued
    /\ LET data == Val(rendered'.batchQuery.data)
       IN  /\ Len(data.normalized_items) = 3
           /\ data.normalized_items[2].errors = <<ErrItem1Date>>

\* C15: after that load, its updates rendered, row 1 shows exactly one
\* field-level error under expiry_date; and an edit of row 1's expiry_date leaves row 1 showing no
\* errors in the same step, with no request issued or answered by it.
C15_LoadThenEdit ==
    [][ /\ LoadsThreeRecords
            => Len(GetFieldErrors(queuedPage'.rowErrors, 1, "expiry_date",
                                  queuedPage'.editedItems[2].errors)) = 1
        /\ \A v \in EditValues("expiry_date") :
              (FieldChange(1, "expiry_date", v) /\ editedItems[2].errors = <<ErrItem1Date>>)
                => /\ ShownRowErrors(1)' = <<>>
                   /\ UNCHANGED <<queries, validateReq, submitReq>> ]_vars

(***************************************************************************)
(* C16                                                                     *)
(***************************************************************************)
\* a submit request is issued in this step
SubmitIssued == submitReq = None /\ submitReq' # None

\* C16: a submit request carries the candidate name, the requested batch
\* id and, position by position, the six persisted fields of each Record
\* of the buffer with their current values, and nothing else.
C16_SubmitPayload ==
    [][ SubmitIssued
          => LET payload == Val(submitReq')
             IN  /\ DOMAIN payload = {"candidate_name", "batch_id", "cleaned_items"}
                 /\ payload.candidate_name = candidateName
                 /\ payload.batch_id = batch
                 /\ Len(payload.cleaned_items) = Len(editedItems)
                 /\ \A i \in 1..Len(editedItems) :
                       /\ DOMAIN payload.cleaned_items[i] = PersistedFields
                       /\ \A g \in PersistedFields :
                             payload.cleaned_items[i][g] = editedItems[i][g] ]_vars

\* a submit is in flight under a changed candidate name for the three
\* records of batch "1"
C16_Witness ==
    /\ submitReq # None
    /\ Val(submitReq).candidate_name = "Noor"
    /\ Val(submitReq).batch_id = "1"
    /\ Len(Val(submitReq).cleaned_items) = 3
    /\ Val(submitReq).cleaned_items[3].doc_id = RowD.doc_id

(***************************************************************************)
(* C17                                                                     *)
(***************************************************************************)
\* C17: when a submit succeeds, its score result is recorded for display,
\* and the cache holds no settled batch for the submitted batch id: that
\* batch is either absent from the cache or being fetched anew, and this
\* step queues no seeding of the buffer from the cache.
C17_SubmitInvalidates ==
    [][ SubmitSuccessStep
          => LET submitted == Val(submitReq).batch_id
             IN  /\ \E sc \in Scores :
                       submitData' = Some([payload |-> Val(submitReq),
                                           score_response |-> [score |-> sc]])
                 /\ \/ queries'[submitted] = None
                    \/ IsFetching(Val(queries'[submitted]))
                 /\ queuedPage'.editedItems = queuedPage.editedItems ]_vars

\* the submit of batch "1" succeeded: the score is shown and the batch,
\* still cached, is being fetched again
C17_Witness ==
    /\ submitReq = None
    /\ IsSome(submitData)
    /\ Val(submitData).score_response.score = 80
    /\ statusMessage = Some("Submission successful! Score: 80")
    /\ batch = "1"
    /\ IsSome(observedQuery.data)
    /\ observedQuery.phase = "request"

(***************************************************************************)
(* C18                                                                     *)
(***************************************************************************)
\* C18: a submit failure with upstream status 502 or 503 queues as status
\* message the reassurance that edits are kept and a retry is safe; any
\* other submit failure queues text that carries the failure's raw
\* message; either way the buffer, the row error map, the global error
\* list and the retry state are, with the queued updates applied, as they
\* were, and the page shows what it showed.
C18_SubmitFailureMessage ==
    [][ \A e \in SubmitFailures :
          SubmitFail(e)
            => /\ IF e.upstreamStatus \in {Some(502), Some(503)}
                  THEN queuedPage'.statusMessage = Some("Submission failed: upstream service is temporarily unavailable. Please retry in a few seconds - the app will not lose your edits.")
                  ELSE queuedPage'.statusMessage = Some("Submission failed: " \o e.message)
               /\ queuedPage' = [queuedPage EXCEPT !.statusMessage = queuedPage'.statusMessage]
               /\ UNCHANGED <<editedItems, rowErrors, globalErrors, fetchErrorState>> ]_vars

\* a submit of an edited buffer failed at the gateway and the edit is kept
C18_Witness ==
    /\ submitReq = None
    /\ statusMessage = Some("Submission failed: upstream service is temporarily unavailable. Please retry in a few seconds - the app will not lose your edits.")
    /\ Len(editedItems) >= 2
    /\ editedItems[1].doc_id = <<"x">>

(***************************************************************************)
(* C19                                                                     *)
(***************************************************************************)
\* a field of a row is edited in this step
FieldEditStep ==
    /\ OperatorStep
    /\ UNCHANGED <<batch, candidateName, queries, validateReq, submitReq>>

\* a replacement of the buffer is queued in this step: the buffer with the
\* queued updates applied changes otherwise than by a field edit or a
\* validate response
BufferReplaced ==
    /\ queuedPage'.editedItems # queuedPage.editedItems
    /\ validateReq' = validateReq
    /\ ~(FieldEditStep /\ ~SeedQueued)

\* C19: the answer to a fetch of a batch id that is no longer the requested
\* one leaves the page, its queued updates and the query of the requested
\* batch id as they were; a replacement of the buffer is queued only by a
\* render that shows a new batch, and the batch it shows has the requested
\* batch id and its records become the buffer.
C19_SupersededFetchDiscarded ==
    [][ /\ \A b \in BatchIds \ {batch} : \A r \in ServerBatches(b) :
              FetchSucceed(b, r)
                => /\ UNCHANGED <<editedItems, rowErrors, globalErrors, statusMessage,
                                  fetchErrorState, pendingState, rendered>>
                   /\ queries'[batch] = queries[batch]
        /\ BufferReplaced => SeedQueued
        /\ SeedQueued
              => /\ Val(rendered'.batchQuery.data).batch_id = batch'
                 /\ queuedPage'.editedItems
                       = Val(rendered'.batchQuery.data).normalized_items ]_vars

\* batch "2" was requested while the first fetch of batch "1" was still
\* outstanding; that fetch has since been answered and collected, and the
\* page shows nothing of it
C19_Witness ==
    /\ batch = "2"
    /\ ops = 1
    /\ queries["1"] = None
    /\ observedQuery.phase = "request"
    /\ editedItems = <<>>
    /\ statusMessage = None
    /\ fetchErrorState = None

(***************************************************************************)
(* C20                                                                     *)
(***************************************************************************)
\* The buffer (every queued update applied) is not the one the records
\* `sent` were taken from: it has
\* another length, or a Record differs in a field that no edit changes
\* (errors, warnings, source_index), so a fetch has replaced it since.
ReplacedSince(sent) ==
    \/ Len(sent) # Len(queuedPage.editedItems)
    \/ \E i \in 1..Len(sent) : \E g \in {"errors", "warnings", "source_index"} :
          sent[i][g] # queuedPage.editedItems[i][g]

\* C20: a validate response that arrives after a fetch replaced the buffer
\* it was issued against leaves the buffer, the row error map and the
\* global error list as they are, and so does a late submit response.
C20_LateResponseDiscarded ==
    [][ /\ \A s \in CleanStyles : \A e \in ValidationErrorLists :
              (ValidateSucceed(s, e) /\ ReplacedSince(Val(validateReq)))
                => /\ queuedPage'.editedItems = queuedPage.editedItems
                   /\ queuedPage'.rowErrors = queuedPage.rowErrors
                   /\ queuedPage'.globalErrors = queuedPage.globalErrors
        /\ (SubmitSuccessStep
              /\ Len(Val(submitReq).cleaned_items) # Len(queuedPage.editedItems))
                => /\ queuedPage'.editedItems = queuedPage.editedItems
                   /\ queuedPage'.rowErrors = queuedPage.rowErrors
                   /\ queuedPage'.globalErrors = queuedPage.globalErrors ]_vars

(***************************************************************************)
(* C21                                                                     *)
(***************************************************************************)
\* the batch ids whose fetch request is on the wire
FetchesInFlight ==
    {b \in BatchIds : IsSome(queries[b]) /\ Val(queries[b]).phase = "request"}

\* C21 as stated: at most one fetch, one validate and one submit request
\* is in flight.
C21_OneOfEachInFlight ==
    /\ Cardinality(FetchesInFlight) <= 1
    /\ Len(validateReq) <= 1
    /\ Len(submitReq) <= 1

\* C21 amended: at most one validate and one submit request is in flight,
\* and Refresh, Retry now and Reset cache never act while the page shows
\* the fetch of the requested batch pending; a fetch besides that one
\* belongs to a batch id the operator has left, and it only runs to its
\* end.
C21_OnePerKind ==
    [][ /\ Len(validateReq') <= 1
        /\ Len(submitReq') <= 1
        /\ (isLoading /\ OperatorStep /\ SameQuery) => queries' = queries
        /\ \A b \in BatchIds \ {batch, batch'} :
              IsSome(queries[b]) => queries'[b] \in {queries[b], None} ]_vars

\* a validate and a submit are in flight together, one of each
C21_Witness ==
    /\ Len(validateReq) = 1
    /\ Len(submitReq) = 1
    /\ ~isLoading

(***************************************************************************)
(* C22                                                                     *)
(***************************************************************************)
\* C22: whenever a remote operation fails (a non-2xx response, a request
\* that never reached the server, an unparseable response), what reaches
\* the caller is the typed failure.
C22_FailuresAreTyped ==
    (IsSome(probe) /\ IsSome(Val(probe).result))
        => LET result == Val(Val(probe).result)
           IN  result.settled = "rejected" => result.error.isApi

(***************************************************************************)
(* C23                                                                     *)
(***************************************************************************)
\* the fetch of the requested batch has failed for good at the retry cap
CapReached ==
    /\ observedQuery.phase = "idle"
    /\ LastFailureOther(observedQuery)
    /\ observedQuery.failureCount > FETCH_RETRY_LIMIT

\* C23: a manual refresh after the cap starts a fetch whose attempt count
\* is 0, and a fetch at attempt count 0 that fails with a status other than
\* 429 is retried, after the server-suggested wait plus 300 ms or else
\* after the first backoff delay of 1000 ms.
C23_RefreshResetsAttempts ==
    [][ /\ (CapReached /\ OperatorStep /\ SameQuery /\ queries' # queries)
            => /\ Val(queries'[batch]).failureCount = 0
               /\ Val(queries'[batch]).phase = "request"
        /\ (ObservedFailStep /\ observedQuery.failureCount = 0
               /\ LastFailureOther(Val(queries'[batch])))
            => LET q2 == Val(queries'[batch])
                   e == Val(q2.failureReason)
               IN  /\ q2.phase = "sleep"
                   /\ q2.failureCount = 1
                   /\ q2.delay = IF e.isApi /\ e.retryAfterMs # None
                                 THEN Val(e.retryAfterMs) + 300 ELSE 1000 ]_vars

\* the first load failed at the cap with a network failure, one manual
\* refresh followed, and the first failure of the new fetch is being
\* retried after the first backoff delay
C23_Witness ==
    /\ batch = "1"
    /\ ops = 1
    /\ ~IsSome(batchQuery.data)
    /\ statusMessage = Some("Failed to fetch")
    /\ observedQuery.phase = "sleep"
    /\ observedQuery.failureCount = 1
    /\ observedQuery.delay = 1000

(***************************************************************************)
(* C24                                                                     *)
(***************************************************************************)
\* Record[i] of the buffer no longer has the persisted values the validate
\* request in flight carries for position i
EditedSinceSnapshot(i) ==
    /\ i \in 1..Len(Val(validateReq))
    /\ i \in 1..Len(editedItems)
    /\ CleanedItem(editedItems[i]) # CleanedItem(Val(validateReq)[i])

\* C24: a field edit made while a validate is in flight goes through and
\* leaves the request as it was issued; when the response succeeds, every
\* position edited since takes, the queued updates applied, the server's
\* cleaned values of the request's Record, and the row error map is the
\* one the response stands for.
C24_EditDuringValidate ==
    [][ /\ (IsSome(validateReq) /\ OperatorStep /\ editedItems' # editedItems)
            => validateReq' = validateReq
        /\ \A s \in CleanStyles : \A e \in ValidationErrorLists :
              ValidateSucceed(s, e)
                => /\ \A i \in 1..Len(Val(validateReq)) :
                         EditedSinceSnapshot(i)
                           => \A g \in PersistedFields :
                                 queuedPage'.editedItems[i][g]
                                    = ServerClean(s, Val(validateReq)[i])[g]
                   /\ (\E i \in 1..Len(Val(validateReq)) : EditedSinceSnapshot(i))
                         => queuedPage'.rowErrors = ExpectedRowMap(e) ]_vars

\* row 0 was edited while a validate was in flight: the buffer has the
\* edit and an emptied row entry, the request still has the old value
C24_Witness ==
    /\ IsSome(validateReq)
    /\ Len(Val(validateReq)) = 2
    /\ validatePending
    /\ ops = 2
    /\ Len(editedItems) = 2
    /\ editedItems[1].doc_id = <<"x">>
    /\ Val(validateReq)[1].doc_id = RowA.doc_id
    /\ EditedSinceSnapshot(1)
    /\ DOMAIN rowErrors = {0}
    /\ rowErrors[0] = <<>>

(***************************************************************************)
(* C25                                                                     *)
(***************************************************************************)
\* x < 0 for a number x
IsNegative(x) == x.neg /\ (x.inf \/ Len(x.mant) > 0)

\* C25: every Record of the buffer has a non-negative amount.
C25_AmountNonNegative ==
    \A i \in 1..Len(editedItems) : ~IsNegative(editedItems[i].amount)

(***************************************************************************)
(* C26                                                                     *)
(***************************************************************************)
\* a validate response without errors is applied in this step
ValidateCleanStep ==
    IsSome(validateReq) /\ validateReq' # validateReq /\ queuedPage'.globalErrors = <<>>

\* C26: from the moment a validate response with errors is applied, and as
\* long as the global error list, the queued updates applied, is not
\* empty, submission is not permitted; a field edit leaves the list as it
\* is; and the list is emptied only by a validate response without errors
\* or by a successfully fetched batch.
C26_GlobalErrorsBlockUntilCleared ==
    [][ /\ queuedPage.globalErrors # <<>> => ~canSubmit
        /\ queuedPage'.globalErrors # <<>> => ~canSubmit'
        /\ (FieldEditStep /\ ~SeedQueued)
              => queuedPage'.globalErrors = queuedPage.globalErrors
        /\ (queuedPage.globalErrors # <<>> /\ queuedPage'.globalErrors = <<>>)
              => (ValidateCleanStep \/ SeedQueued) ]_vars

(***************************************************************************)
(* C27                                                                     *)
(***************************************************************************)
\* the records of batch b as they are submitted unedited, fresh from the
\* load or as a validation returns them
CleanedBatches(b) ==
    {[i \in 1..Len(r.normalized_items) |-> ServerClean(s, r.normalized_items[i])] :
        r \in ServerBatches(b), s \in CleanStyles}

\* C27: a submit request carries the id of the batch the page shows, and
\* its records are never the records of a batch with another id.
C27_SubmitUnderOwnBatch ==
    [][ SubmitIssued
          => LET payload == Val(submitReq')
             IN  /\ payload.batch_id = batch
                 /\ \A b \in BatchIds \ {payload.batch_id} :
                       payload.cleaned_items \notin CleanedBatches(b) ]_vars

====
